---------------------------- MODULE Spec2Model ----------------------------
(***************************************************************************)
(* A model of src/src/jp_main.cpp: ComputeApplication, a single compute    *)
(* dispatch (setup, dispatch, fence wait, readback, encode, teardown).     *)
(*                                                                         *)
(* The host is one sequential process whose position is pc; every driver   *)
(* call is one step.  The driver and the device are the environment: the   *)
(* result of every call, the enumerations it returns and the moment the    *)
(* device finishes the submitted work are chosen nondeterministically.     *)
(* Both build configurations are modelled: ndebug = TRUE is the NDEBUG     *)
(* build, in which assert() expands to nothing.                            *)
(***************************************************************************)
EXTENDS Integers, Sequences, FiniteSets

VARIABLES
  ndebug,                \* build configuration: NDEBUG defined
  width, height, groupSize,  \* kWidth, kHeight, kWorkgroupeSize
  pc,                    \* the next step of the host
  exit,                  \* how the process ended, "running" before that
  stdout,                \* the messages written with printf
  e_what,                \* the message of the exception in flight
  alive,                 \* the driver objects that exist (created, not destroyed)
  log,                   \* the driver calls made so far, in order
  failures,              \* the number of calls that returned a non-success result
  layer_properties,      \* CreateInstance: the enumerated layer names
  extension_properties,  \* CreateInstance: the enumerated extension names
  device_count,          \* FindPhysicalDevice: the number of enumerated devices
  physical_device,       \* member: the selected physical device, 0 while unset
  queue_families,        \* GetComputeQueueFamilyIndex: the enumerated families
  queue_family_index,    \* member: the selected queue family
  memory_type_bits,      \* CreateBuffer: memory_requirements.memoryTypeBits
  memory_properties,     \* FindMemoryType: memoryTypes[i].propertyFlags, i = 0..
  memoryTypeIndex,       \* CreateBuffer: allocate_info.memoryTypeIndex
  fp,                    \* ReadFile: the result of fopen
  filesize,              \* ReadFile: the size of the file
  file_length,           \* CreateComputePipeline: the length ReadFile reported
  contents,              \* the last bytes of shaders/comp.spv (all of them for a small file)
  code,                  \* CreateComputePipeline: the buffer ReadFile returned, from the
                         \* offset of the first byte of contents on
  cbState,               \* the state of command_buffer
  commands,              \* the commands recorded into command_buffer
  fence,                 \* the state of the fence of RunCommandBuffer
  deviceWork,            \* the submitted dispatch on the device
  mapped_memory,         \* SaveRenderedImage: the pointer vkMapMemory produced
  error,                 \* SaveRenderedImage: the status lodepng::encode returned
  cleanup_i,             \* CleanUp: the next entry of its destroy sequence
  buffer_size,           \* member: the size of the storage buffer in bytes
  pixel,                 \* the four channels of a pixel the device wrote to the buffer
  pixels_read,           \* SaveRenderedImage: the number of pixels the loop read
  read_end,              \* SaveRenderedImage: one past the last byte offset the loop read
  image_size,            \* SaveRenderedImage: image.size()
  image_px               \* SaveRenderedImage: the four bytes pushed for that pixel

config == <<ndebug, width, height, groupSize>>
ctl    == <<pc, exit, stdout, e_what>>
drv    == <<alive, log, failures>>
inst   == <<layer_properties, extension_properties, device_count, physical_device>>
queue  == <<queue_families, queue_family_index>>
mem    == <<memory_type_bits, memory_properties, memoryTypeIndex>>
file   == <<fp, filesize, file_length, contents, code>>
gpu    == <<cbState, commands, fence, deviceWork>>
img    == <<buffer_size, pixel, pixels_read, read_end, image_size, image_px>>
host   == <<mapped_memory, error, cleanup_i, img>>
vars   == <<config, ctl, drv, inst, queue, mem, file, gpu, host>>

---------------------------------------------------------------------------
(* Program constants *)

kWidth          == 3200
kHeight         == 2400
kWorkgroupeSize == 32

\* kEnableValidationLayers is false exactly in the NDEBUG build
kEnableValidationLayers == ~ndebug

VK_QUEUE_COMPUTE_BIT                 == 2
VK_MEMORY_PROPERTY_HOST_VISIBLE_BIT  == 2
VK_MEMORY_PROPERTY_HOST_COHERENT_BIT == 4

kValidationLayer == "VK_LAYER_LUNARG_standard_validation"
kDebugReportExt  == "VK_EXT_debug_report"

---------------------------------------------------------------------------
(* Bounds of the model *)

MaxFailures      == 1   \* driver calls that may fail in one run
MaxLayers        == 1   \* enumerated layers / extensions
MaxDevices       == 2   \* enumerated physical devices
MaxQueueFamilies == 2   \* enumerated queue families
MaxMemoryTypes   == 2   \* entries of the memory type table
MaxFileSize      == 5   \* bytes of shaders/comp.spv
MaxSmallDim      == 3   \* small image widths and heights tried: 1..MaxSmallDim
MaxSmallSize     == 3   \* small work-group sizes tried: 1..MaxSmallSize

---------------------------------------------------------------------------
(* Arithmetic helpers *)

RECURSIVE BitAnd(_, _)
BitAnd(a, b) ==
  IF a = 0 \/ b = 0 THEN 0
  ELSE (a % 2) * (b % 2) + 2 * BitAnd(a \div 2, b \div 2)

RECURSIVE Pow2(_)
Pow2(n) == IF n = 0 THEN 1 ELSE 2 * Pow2(n - 1)

RECURSIVE Log2(_)
Log2(n) == IF n < 2 THEN 0 ELSE 1 + Log2(n \div 2)

\* IEEE-754 single precision, positive values: [m, e] stands for m * 2^e with
\* 2^23 <= m < 2^24 (24 significant bits); rounding is to nearest, ties to even.
MantissaBits == 24

\* q rounded up when the remainder r of a division by d is above d/2, or is
\* d/2 and q is odd
RoundNearestEven(q, r, d) ==
  IF 2 * r > d \/ (2 * r = d /\ q % 2 = 1) THEN q + 1 ELSE q

\* a mantissa that rounding carried to 2^24 is renormalised
Normalise(m, e) ==
  IF m = Pow2(MantissaBits) THEN [m |-> Pow2(MantissaBits - 1), e |-> e + 1]
                            ELSE [m |-> m, e |-> e]

\* float(n), the conversion of a positive int
IntToFloat(n) ==
  LET k == Log2(n) IN
    IF k < MantissaBits
      THEN [m |-> n * Pow2(MantissaBits - 1 - k), e |-> k - (MantissaBits - 1)]
      ELSE LET s == k - (MantissaBits - 1)
               d == Pow2(s)
           IN  Normalise(RoundNearestEven(n \div d, n % d, d), s)

\* p further binary digits of the quotient (q + r/d): the pair <<quotient, remainder>>
RECURSIVE LongDivide(_, _, _, _)
LongDivide(q, r, d, p) ==
  IF p = 0 THEN <<q, r>>
  ELSE IF 2 * r >= d THEN LongDivide(2 * q + 1, 2 * r - d, d, p - 1)
                     ELSE LongDivide(2 * q, 2 * r, d, p - 1)

\* a / b in float arithmetic
FloatDiv(a, b) ==
  LET p  == IF a.m >= b.m THEN MantissaBits - 1 ELSE MantissaBits
      qr == LongDivide(a.m \div b.m, a.m % b.m, b.m, p)
  IN  Normalise(RoundNearestEven(qr[1], qr[2], b.m), a.e - b.e - p)

\* ceil(x) of a positive float, as an integer
CeilFloat(x) ==
  IF x.e >= 0 THEN x.m * Pow2(x.e)
  ELSE IF -x.e > MantissaBits THEN 1
  ELSE (x.m + Pow2(-x.e) - 1) \div Pow2(-x.e)

\* 0.0f and 1.0f
FloatZero == [m |-> 0, e |-> 0]
FloatOne  == IntToFloat(1)

\* All sequences over S of length 0..n
SeqsUpTo(S, n) == UNION {[1..k -> S] : k \in 0..n}

Range(s) == {s[i] : i \in 1..Len(s)}

\* The largest int
INT32_MAX == 2147483647

\* a * b modulo m, for m <= 2^28, by doubling
RECURSIVE MulMod(_, _, _)
MulMod(a, b, m) ==
  IF b = 0 THEN 0 ELSE (2 * MulMod(a, b \div 2, m) + (b % 2) * (a % m)) % m

\* The uint32_t that keeps the low 32 bits of 16 * n, n < 2^28, written as the
\* int with the same bit pattern (values from 2^31 on are negative)
Uint32Times16(n) == IF n >= Pow2(27) THEN 16 * (n - Pow2(28)) ELSE 16 * n

---------------------------------------------------------------------------
(* Process-level outcomes *)

Running == exit = "running"

\* The process is killed by a signal raised inside a call whose behaviour is
\* undefined (an invalid handle, a null FILE*, a null mapped pointer).
SegFault ==
  /\ pc' = "crashed"
  /\ exit' = "SIGSEGV"
  /\ UNCHANGED <<stdout, e_what>>

\* throw std::runtime_error(msg)
Throw(msg) ==
  /\ pc' = "thrown"
  /\ e_what' = msg
  /\ UNCHANGED <<exit, stdout>>

Goto(next) ==
  /\ pc' = next
  /\ UNCHANGED <<exit, stdout, e_what>>

\* The macro VK_CHECK_RESULT: report a non-success result and assert; the
\* assert aborts the process unless NDEBUG is defined.
VK_CHECK_RESULT(res, next) ==
  IF res # "VK_SUCCESS"
    THEN /\ stdout' = stdout \cup {"Fatal : VkResult"}
         /\ IF ndebug
              THEN pc' = next /\ UNCHANGED exit
              ELSE pc' = "aborted" /\ exit' = "SIGABRT"
         /\ UNCHANGED e_what
    ELSE Goto(next)

---------------------------------------------------------------------------
(* Driver calls *)

\* A call may return a non-success result while the budget lasts.
MayReturn(res) == res = "VK_SUCCESS" \/ failures < MaxFailures

Record(op, obj, res) ==
  /\ log' = Append(log, [op |-> op, obj |-> obj, res |-> res])
  /\ failures' = IF res = "VK_SUCCESS" THEN failures ELSE failures + 1

\* A call handed a handle that names no existing object has undefined behaviour.
Invalid(uses) == ~(uses \subseteq alive)

\* A driver call whose result goes through VK_CHECK_RESULT; on success the
\* object obj (if any) exists afterwards.  bad: the call has undefined
\* behaviour, so that it may also kill the process.
CheckedCall(here, next, op, obj, bad) ==
  /\ pc = here
  /\ \/ /\ bad
        /\ SegFault
        /\ UNCHANGED drv
     \/ \E res \in {"VK_SUCCESS", "VK_ERROR"} :
          /\ MayReturn(res)
          /\ Record(op, obj, res)
          /\ alive' = IF res = "VK_SUCCESS" /\ obj # "" THEN alive \cup {obj} ELSE alive
          /\ VK_CHECK_RESULT(res, next)

\* A driver call that returns nothing (vkCmd*, vkGet*, vkUpdate*).
VoidCall(here, next, op, obj, bad) ==
  /\ pc = here
  /\ \/ /\ bad
        /\ SegFault
        /\ UNCHANGED drv
     \/ /\ Record(op, obj, "VK_SUCCESS")
        /\ UNCHANGED alive
        /\ Goto(next)

---------------------------------------------------------------------------
(* Initial state: the object is constructed, Run has not started *)

InitCommon ==
  /\ ndebug \in BOOLEAN
  /\ buffer_size = 0
  /\ pc = "Run"
  /\ exit = "running"
  /\ stdout = {}
  /\ e_what = ""
  /\ alive = {}
  /\ log = <<>>
  /\ failures = 0
  /\ layer_properties = <<>>
  /\ extension_properties = <<>>
  /\ device_count = 0
  /\ physical_device = 0
  /\ queue_families = <<>>
  /\ queue_family_index = 0
  /\ memory_type_bits = 0
  /\ memory_properties = <<>>
  /\ memoryTypeIndex = 0
  /\ fp = "none"
  /\ filesize = 0
  /\ file_length = 0
  /\ contents = <<>>
  /\ code = <<>>
  /\ cbState = "none"
  /\ commands = <<>>
  /\ fence = "none"
  /\ deviceWork = "none"
  /\ mapped_memory = "nullptr"
  /\ error = 0
  /\ cleanup_i = 1
  /\ pixels_read = 0
  /\ read_end = 0
  /\ image_size = 0
  /\ image_px = <<>>

Init ==
  /\ InitCommon
  /\ width = kWidth
  /\ height = kHeight
  /\ groupSize = kWorkgroupeSize
  /\ pixel = <<FloatZero, FloatZero, FloatZero, FloatOne>>

---------------------------------------------------------------------------
(* Run: buffer_size is computed, then the first step of CreateInstance *)

\* struct Pixel { float r, g, b, a; }
Channels     == 4
SizeofFloat  == 4
SizeofPixel  == Channels * SizeofFloat

\* Mutant of BufferSize: one byte per channel, as in the encoded image.
BufferSize_OneBytePerChannel(w, h) == Channels * w * h

\* buffer_size = sizeof(Pixel) * kWidth * kHeight (line 121): the product is
\* computed in size_t and stored in a uint32_t, which keeps its low 32 bits.
BufferSize(w, h) == Uint32Times16(MulMod(w, h, Pow2(28)))

\* Run without its first component
Run_SkipsCreateInstance ==
  /\ pc = "Run"
  /\ buffer_size' = BufferSize(width, height)
  /\ Goto("vkEnumeratePhysicalDevices")
  /\ UNCHANGED <<config, drv, inst, queue, mem, file, gpu, mapped_memory, error, cleanup_i,
                 pixel, pixels_read, read_end, image_size, image_px>>

Run ==
  /\ pc = "Run"
  /\ buffer_size' = BufferSize(width, height)
  /\ Goto(IF kEnableValidationLayers THEN "vkEnumerateInstanceLayerProperties"
                                     ELSE "vkCreateInstance")
  /\ UNCHANGED <<config, drv, inst, queue, mem, file, gpu, mapped_memory, error, cleanup_i,
                 pixel, pixels_read, read_end, image_size, image_px>>

---------------------------------------------------------------------------
(* CreateInstance *)

LayerNames     == {kValidationLayer, "VK_LAYER_other"}
ExtensionNames == {kDebugReportExt, "VK_KHR_other"}

\* the loop of lines 170-177
FoundLayer(props) == \E i \in 1..Len(props) : props[i] = kValidationLayer

\* the loop of lines 197-204
FoundExtension(props) == \E i \in 1..Len(props) : props[i] = kDebugReportExt

CreateInstance_EnumerateLayers ==
  /\ pc = "vkEnumerateInstanceLayerProperties"
  /\ \E props \in SeqsUpTo(LayerNames, MaxLayers) : layer_properties' = props
  /\ Goto("found_layer")
  /\ UNCHANGED <<config, drv, extension_properties, device_count, physical_device, queue, mem, file, gpu, host>>

CreateInstance_CheckLayer ==
  /\ pc = "found_layer"
  /\ IF ~FoundLayer(layer_properties)
       THEN Throw("Layer VK_LAYER_LUNARG_standard_validation not supported")
       ELSE Goto("vkEnumerateInstanceExtensionProperties")
  /\ UNCHANGED <<config, drv, inst, queue, mem, file, gpu, host>>

CreateInstance_EnumerateExtensions ==
  /\ pc = "vkEnumerateInstanceExtensionProperties"
  /\ \E props \in SeqsUpTo(ExtensionNames, MaxLayers) : extension_properties' = props
  /\ Goto("found_extension")
  /\ UNCHANGED <<config, drv, layer_properties, device_count, physical_device, queue, mem, file, gpu, host>>

CreateInstance_CheckExtension ==
  /\ pc = "found_extension"
  /\ IF ~FoundExtension(extension_properties)
       THEN Throw("Extension VK_EXT_DEBUG_REPORT_EXTENSION_NAME not supported")
       ELSE Goto("vkCreateInstance")
  /\ UNCHANGED <<config, drv, inst, queue, mem, file, gpu, host>>

CreateInstance_Create ==
  /\ CheckedCall("vkCreateInstance",
                 IF kEnableValidationLayers THEN "vkGetInstanceProcAddr_create"
                                            ELSE "vkEnumeratePhysicalDevices",
                 "vkCreateInstance", "instance", FALSE)
  /\ layer_properties' = <<>>
  /\ extension_properties' = <<>>
  /\ UNCHANGED <<config, device_count, physical_device, queue, mem, file, gpu, host>>

\* vkGetInstanceProcAddr(instance, "vkCreateDebugReportCallbackEXT")
CreateInstance_LoadCallback ==
  /\ pc = "vkGetInstanceProcAddr_create"
  /\ \E loaded \in BOOLEAN :
       IF ~loaded THEN Throw("Could not load vkCreateDebugReportCallbackEXT")
                  ELSE Goto("vkCreateDebugReportCallbackEXT")
  /\ UNCHANGED <<config, drv, inst, queue, mem, file, gpu, host>>

CreateInstance_Callback ==
  /\ CheckedCall("vkCreateDebugReportCallbackEXT", "vkEnumeratePhysicalDevices",
                 "vkCreateDebugReportCallbackEXT", "debug_report_callback", Invalid({"instance"}))
  /\ UNCHANGED <<config, inst, queue, mem, file, gpu, host>>

CreateInstance ==
  \/ CreateInstance_EnumerateLayers
  \/ CreateInstance_CheckLayer
  \/ CreateInstance_EnumerateExtensions
  \/ CreateInstance_CheckExtension
  \/ CreateInstance_Create
  \/ CreateInstance_LoadCallback
  \/ CreateInstance_Callback

---------------------------------------------------------------------------
(* FindPhysicalDevice *)

\* vkEnumeratePhysicalDevices(instance, &device_count, nullptr); its result
\* is not checked.
FindPhysicalDevice_Enumerate ==
  /\ pc = "vkEnumeratePhysicalDevices"
  /\ \/ /\ Invalid({"instance"})
        /\ SegFault
        /\ UNCHANGED device_count
     \/ /\ \E n \in 0..MaxDevices : device_count' = n
        /\ Goto("device_count")
  /\ UNCHANGED <<config, drv, layer_properties, extension_properties, physical_device,
                 queue, mem, file, gpu, host>>

\* The enumerated devices, numbered in enumeration order.
EnumeratedDevices(n) == [i \in 1..n |-> i]

\* The loop of lines 307-312: the first device passes the (absent) check.
SelectDevice(devices) == devices[1]

\* device_count and devices go out of scope when FindPhysicalDevice returns.
FindPhysicalDevice_Select ==
  /\ pc = "device_count"
  /\ IF device_count = 0
       THEN /\ Throw("could not find a device with vulkan support")
            /\ UNCHANGED physical_device
       ELSE /\ physical_device' = SelectDevice(EnumeratedDevices(device_count))
            /\ Goto("vkGetPhysicalDeviceQueueFamilyProperties")
  /\ device_count' = IF device_count = 0 THEN device_count ELSE 0
  /\ UNCHANGED <<config, drv, layer_properties, extension_properties,
                 queue, mem, file, gpu, host>>

FindPhysicalDevice ==
  \/ FindPhysicalDevice_Enumerate
  \/ FindPhysicalDevice_Select

---------------------------------------------------------------------------
(* CreateDevice and GetComputeQueueFamilyIndex *)

\* queueFlags: 1 graphics, 2 compute, 3 both
QueueFamilyProperties == [queueCount : {0, 1}, queueFlags : {1, 2, 3}]

\* Mutant of ComputeFamilyFrom: the queue count is not looked at.
RECURSIVE ComputeFamilyFrom_FlagsOnly(_, _)
ComputeFamilyFrom_FlagsOnly(i, families) ==
  IF i >= Len(families) THEN i
  ELSE IF BitAnd(families[i + 1].queueFlags, VK_QUEUE_COMPUTE_BIT) # 0
         THEN i
         ELSE ComputeFamilyFrom_FlagsOnly(i + 1, families)

\* The loop of lines 734-742 from index i: the first family with a queue and
\* the compute bit, or size() when there is none.
RECURSIVE ComputeFamilyFrom(_, _)
ComputeFamilyFrom(i, families) ==
  IF i >= Len(families) THEN i
  ELSE IF families[i + 1].queueCount > 0
          /\ BitAnd(families[i + 1].queueFlags, VK_QUEUE_COMPUTE_BIT) # 0
         THEN i
         ELSE ComputeFamilyFrom(i + 1, families)

CreateDevice_EnumerateFamilies ==
  /\ pc = "vkGetPhysicalDeviceQueueFamilyProperties"
  /\ \E fams \in SeqsUpTo(QueueFamilyProperties, MaxQueueFamilies) : queue_families' = fams
  /\ Goto("GetComputeQueueFamilyIndex")
  /\ UNCHANGED <<config, drv, inst, queue_family_index, mem, file, gpu, host>>

\* Mutant of GetComputeQueueFamilyIndex: the search starts at the number of
\* the selected device instead of 0.
GetComputeQueueFamilyIndex_FromMember ==
  /\ pc = "GetComputeQueueFamilyIndex"
  /\ LET i == ComputeFamilyFrom(physical_device, queue_families) IN
       IF i >= Len(queue_families)
         THEN /\ Throw("could not find a queue family that supports operations")
              /\ UNCHANGED queue_family_index
         ELSE /\ queue_family_index' = i
              /\ Goto("vkCreateDevice")
  /\ queue_families' = <<>>
  /\ UNCHANGED <<config, drv, inst, mem, file, gpu, host>>

GetComputeQueueFamilyIndex ==
  /\ pc = "GetComputeQueueFamilyIndex"
  /\ LET i == ComputeFamilyFrom(0, queue_families) IN
       IF i = Len(queue_families)
         THEN /\ Throw("could not find a queue family that supports operations")
              /\ UNCHANGED queue_family_index
         ELSE /\ queue_family_index' = i
              /\ Goto("vkCreateDevice")
  /\ queue_families' = <<>>
  /\ UNCHANGED <<config, drv, inst, mem, file, gpu, host>>

CreateDevice_Create ==
  /\ CheckedCall("vkCreateDevice", "vkGetDeviceQueue", "vkCreateDevice", "device",
                 Invalid({"instance"}))
  /\ UNCHANGED <<config, inst, queue, mem, file, gpu, host>>

CreateDevice_GetQueue ==
  /\ VoidCall("vkGetDeviceQueue", "vkCreateBuffer", "vkGetDeviceQueue", "queue",
              Invalid({"device"}))
  /\ UNCHANGED <<config, inst, queue, mem, file, gpu, host>>

CreateDevice ==
  \/ CreateDevice_EnumerateFamilies
  \/ GetComputeQueueFamilyIndex
  \/ CreateDevice_Create
  \/ CreateDevice_GetQueue

---------------------------------------------------------------------------
(* CreateBuffer and FindMemoryType *)

\* propertyFlags: 1 device-local, 2 host-visible, 4 host-coherent
MemoryPropertyFlags == {1, 2, 6, 7}

\* (uint32_t)-1, the value of "return -1": the 32-bit pattern 0xFFFFFFFF
UINT32_MINUS_ONE == -1

\* The loop of lines 762-766 from index i.
\* A uint32_t is kept as its 32-bit pattern: bit 31 makes the number negative.
Low31(x) == IF x < 0 THEN (x + INT32_MAX) + 1 ELSE x

INT32_MIN == (-INT32_MAX) - 1

\* a & b on 32-bit patterns
BitAnd32(a, b) ==
  BitAnd(Low31(a), Low31(b)) + (IF a < 0 /\ b < 0 THEN INT32_MIN ELSE 0)

\* 1 << i (line 763), for i in 0..31
OneShl(i) == IF i = 31 THEN INT32_MIN ELSE Pow2(i)

\* The loop of lines 762-766 run from the highest index down
RECURSIVE FindMemoryTypeFrom_Highest(_, _, _, _)
FindMemoryTypeFrom_Highest(i, bits, properties, types) ==
  IF i >= Len(types) THEN UINT32_MINUS_ONE
  ELSE LET later == FindMemoryTypeFrom_Highest(i + 1, bits, properties, types)
       IN  IF later # UINT32_MINUS_ONE THEN later
           ELSE IF BitAnd32(bits, OneShl(i)) # 0
                   /\ BitAnd(types[i + 1], properties) = properties
                  THEN i
                  ELSE UINT32_MINUS_ONE

RECURSIVE FindMemoryTypeFrom(_, _, _, _)
FindMemoryTypeFrom(i, bits, properties, types) ==
  IF i >= Len(types) THEN UINT32_MINUS_ONE
  ELSE IF BitAnd32(bits, OneShl(i)) # 0 /\ BitAnd(types[i + 1], properties) = properties
         THEN i
         ELSE FindMemoryTypeFrom(i + 1, bits, properties, types)

FindMemoryType(bits, properties, types) == FindMemoryTypeFrom(0, bits, properties, types)

\* The properties CreateBuffer asks for (line 398)
kHostProperties == VK_MEMORY_PROPERTY_HOST_COHERENT_BIT + VK_MEMORY_PROPERTY_HOST_VISIBLE_BIT

\* A memory type index the driver can allocate from
ValidMemoryType(i, types) == i >= 0 /\ i < Len(types)

CreateBuffer_Create ==
  /\ CheckedCall("vkCreateBuffer", "vkGetBufferMemoryRequirements", "vkCreateBuffer",
                 "buffer", Invalid({"device"}))
  /\ UNCHANGED <<config, inst, queue, mem, file, gpu, host>>

CreateBuffer_Requirements ==
  /\ VoidCall("vkGetBufferMemoryRequirements", "FindMemoryType",
              "vkGetBufferMemoryRequirements", "buffer", Invalid({"device", "buffer"}))
  /\ \E bits \in 0..(Pow2(MaxMemoryTypes) - 1) : memory_type_bits' = bits
  /\ UNCHANGED <<config, inst, queue, memory_properties, memoryTypeIndex, file, gpu, host>>

\* The call of FindMemoryType (lines 397-398): it reads the memory type table
\* of the physical device (line 756) and runs the loop.
FindMemoryType_Call(tables) ==
  /\ pc = "FindMemoryType"
  /\ \E types \in tables :
       /\ memory_properties' = types
       /\ memoryTypeIndex' = FindMemoryType(memory_type_bits, kHostProperties, types)
  /\ Goto("vkAllocateMemory")
  /\ UNCHANGED <<config, drv, inst, queue, memory_type_bits, file, gpu, host>>

CreateBuffer_FindMemoryType ==
  FindMemoryType_Call(SeqsUpTo(MemoryPropertyFlags, MaxMemoryTypes))

\* memory_requirements, allocate_info and the memory type table are read for
\* the last time by this call.
CreateBuffer_Allocate ==
  /\ CheckedCall("vkAllocateMemory", "vkBindBufferMemory", "vkAllocateMemory",
                 "buffer_memory",
                 Invalid({"device"}) \/ ~ValidMemoryType(memoryTypeIndex, memory_properties))
  /\ memory_type_bits' = 0
  /\ memory_properties' = <<>>
  /\ memoryTypeIndex' = 0
  /\ UNCHANGED <<config, inst, queue, file, gpu, host>>

CreateBuffer_Bind ==
  /\ CheckedCall("vkBindBufferMemory", "vkCreateDescriptorSetLayout", "vkBindBufferMemory",
                 "", Invalid({"device", "buffer", "buffer_memory"}))
  /\ UNCHANGED <<config, inst, queue, mem, file, gpu, host>>

CreateBuffer ==
  \/ CreateBuffer_Create
  \/ CreateBuffer_Requirements
  \/ CreateBuffer_FindMemoryType
  \/ CreateBuffer_Allocate
  \/ CreateBuffer_Bind

---------------------------------------------------------------------------
(* CreateDescriptorSetLayout and CreateDescriptorSet *)

CreateDescriptorSetLayout ==
  /\ CheckedCall("vkCreateDescriptorSetLayout", "vkCreateDescriptorPool",
                 "vkCreateDescriptorSetLayout", "descriptor_set_layout", Invalid({"device"}))
  /\ UNCHANGED <<config, inst, queue, mem, file, gpu, host>>

\* CreateDescriptorSet without the creation of the pool (line 466)
CreateDescriptorSet_Pool_NotCreated ==
  /\ pc = "vkCreateDescriptorPool"
  /\ Goto("vkAllocateDescriptorSets")
  /\ UNCHANGED <<config, drv, inst, queue, mem, file, gpu, host>>

CreateDescriptorSet_Pool ==
  /\ CheckedCall("vkCreateDescriptorPool", "vkAllocateDescriptorSets",
                 "vkCreateDescriptorPool", "descriptor_pool", Invalid({"device"}))
  /\ UNCHANGED <<config, inst, queue, mem, file, gpu, host>>

CreateDescriptorSet_Allocate ==
  /\ CheckedCall("vkAllocateDescriptorSets", "vkUpdateDescriptorSets",
                 "vkAllocateDescriptorSets", "descriptor_set",
                 Invalid({"device", "descriptor_pool", "descriptor_set_layout"}))
  /\ UNCHANGED <<config, inst, queue, mem, file, gpu, host>>

CreateDescriptorSet_Update ==
  /\ VoidCall("vkUpdateDescriptorSets", "fopen", "vkUpdateDescriptorSets", "descriptor_set",
              Invalid({"device", "descriptor_set", "buffer"}))
  /\ UNCHANGED <<config, inst, queue, mem, file, gpu, host>>

CreateDescriptorSet ==
  \/ CreateDescriptorSet_Pool
  \/ CreateDescriptorSet_Allocate
  \/ CreateDescriptorSet_Update

---------------------------------------------------------------------------
(* CreateComputePipeline and ReadFile *)

\* ceil(n / 4.0): the division by 4 is exact in double arithmetic
CeilQuarter(n) == IF n % 4 = 0 THEN n \div 4 ELSE n \div 4 + 1

\* length = filesizepadded (line 801): the uint32_t with the low 32 bits of
\* 4 * q, q <= 2^29, written as the int with the same bit pattern
Uint32Times4(q) == IF q >= Pow2(29) THEN 4 * (q - Pow2(30)) ELSE 4 * q

\* The byte values tried for the file; a byte of new char[] that nothing has
\* written yet is indeterminate
Bytes == {0, 255}

Indeterminate == -1

\* The part of the file that is followed: the last MaxFileSize bytes
Window(n) == IF n < MaxFileSize THEN n ELSE MaxFileSize

\* new char[filesizepadded] (line 792), from offset base on; filesizepadded
\* is 4 * q
NewChar(q, base) == [k \in 1..((4 * (q - 1) - base) + 4) |-> Indeterminate]

\* fread(str, filesize, sizeof(char), fp) (line 793): the file is copied to
\* the start of str
Fread(str, bytes) == [k \in 1..Len(str) |-> IF k <= Len(bytes) THEN bytes[k] ELSE str[k]]

\* The loop of lines 797-799 stopped one byte early
RECURSIVE PadLoop_LeavesLast(_, _, _, _)
PadLoop_LeavesLast(str, i, q, base) ==
  IF (i + 1) \div 4 < q
    THEN PadLoop_LeavesLast([str EXCEPT ![i - base + 1] = 0], i + 1, q, base)
    ELSE [str |-> str, overflow |-> FALSE]

\* The loop of lines 797-799 from the int i on: i < filesizepadded, str[i] = 0,
\* i++.  str holds the buffer from offset base on, filesizepadded is 4 * q.
\* Incrementing i = INT_MAX overflows.
RECURSIVE PadLoop(_, _, _, _)
PadLoop(str, i, q, base) ==
  IF i \div 4 < q
    THEN LET written == [str EXCEPT ![i - base + 1] = 0]
         IN  IF i = INT32_MAX THEN [str |-> written, overflow |-> TRUE]
             ELSE PadLoop(written, i + 1, q, base)
    ELSE [str |-> str, overflow |-> FALSE]

\* fopen(filename, "rb") and the report of a null result, after which
\* ReadFile goes on.
ReadFile_Open ==
  /\ pc = "fopen"
  /\ \/ /\ fp' = "NULL"
        /\ filesize' = 0
        /\ contents' = <<>>
        /\ stdout' = stdout \cup {"Could not find or open file"}
     \/ /\ fp' = "open"
        /\ \E n \in 0..MaxFileSize :
             /\ filesize' = n
             /\ contents' \in [1..n -> Bytes]
        /\ UNCHANGED stdout
  /\ pc' = "fseek"
  /\ UNCHANGED <<exit, e_what, file_length, code, config, drv, inst, queue, mem, gpu, host>>

\* Lines 785-802.  With fp = NULL every stdio call has undefined behaviour:
\* the process is killed, or the calls fail (ftell returns -1) and the
\* function returns.  With a file of more than INT_MAX - 3 bytes the loop
\* variable overflows, which is undefined: the process is killed by a write
\* far outside the buffer, or the loop ends as if i were wider.
ReadFile_Read ==
  /\ pc = "fseek"
  /\ \/ /\ fp = "NULL"
        /\ \/ SegFault /\ UNCHANGED <<fp, file_length, code>>
           \/ /\ file_length' = Uint32Times4(CeilQuarter(-1))
              /\ code' = <<>>
              /\ UNCHANGED fp
              /\ Goto("vkCreateShaderModule")
     \/ /\ fp = "open"
        /\ LET q    == CeilQuarter(filesize)
               base == filesize - Len(contents)
               loop == PadLoop(Fread(NewChar(q, base), contents), filesize, q, base)
           IN  \/ /\ loop.overflow
                  /\ SegFault
                  /\ UNCHANGED <<fp, file_length, code>>
               \/ /\ file_length' = Uint32Times4(q)
                  /\ code' = loop.str
                  /\ fp' = "closed"
                  /\ Goto("vkCreateShaderModule")
  /\ UNCHANGED <<filesize, contents, config, drv, inst, queue, mem, gpu, host>>

ReadFile == ReadFile_Open \/ ReadFile_Read

\* codeSize = file_length; a code size of 0 is not a valid argument.
CreateComputePipeline_ShaderModule ==
  /\ CheckedCall("vkCreateShaderModule", "vkCreatePipelineLayout", "vkCreateShaderModule",
                 "compute_shader_module", Invalid({"device"}) \/ file_length = 0)
  /\ file_length' = 0
  /\ fp' = "none"
  /\ filesize' = 0
  /\ contents' = <<>>
  /\ code' = <<>>
  /\ UNCHANGED <<config, inst, queue, mem, gpu, host>>

CreateComputePipeline_Layout ==
  /\ CheckedCall("vkCreatePipelineLayout", "vkCreateComputePipelines",
                 "vkCreatePipelineLayout", "pipeline_layout",
                 Invalid({"device", "descriptor_set_layout"}))
  /\ UNCHANGED <<config, inst, queue, mem, file, gpu, host>>

CreateComputePipeline_Pipeline ==
  /\ CheckedCall("vkCreateComputePipelines", "vkCreateCommandPool",
                 "vkCreateComputePipelines", "pipeline",
                 Invalid({"device", "compute_shader_module", "pipeline_layout"}))
  /\ UNCHANGED <<config, inst, queue, mem, file, gpu, host>>

CreateComputePipeline ==
  \/ ReadFile
  \/ CreateComputePipeline_ShaderModule
  \/ CreateComputePipeline_Layout
  \/ CreateComputePipeline_Pipeline

---------------------------------------------------------------------------
(* CreateCommandBuffer *)

\* Mutant of GroupCount: the quotient is truncated instead of rounded up.
GroupCount_Truncated(n, size) ==
  LET x == FloatDiv(IntToFloat(n), IntToFloat(size)) IN
    IF x.e >= 0 THEN x.m * Pow2(x.e)
    ELSE IF -x.e > MantissaBits THEN 0
    ELSE x.m \div Pow2(-x.e)

\* (uint32_t)ceil(n / float(size)), line 617
GroupCount(n, size) == CeilFloat(FloatDiv(IntToFloat(n), IntToFloat(size)))

CreateCommandBuffer_Pool ==
  /\ CheckedCall("vkCreateCommandPool", "vkAllocateCommandBuffers", "vkCreateCommandPool",
                 "command_pool", Invalid({"device"}))
  /\ UNCHANGED <<config, inst, queue, mem, file, gpu, host>>

CreateCommandBuffer_Allocate ==
  /\ CheckedCall("vkAllocateCommandBuffers", "vkBeginCommandBuffer",
                 "vkAllocateCommandBuffers", "command_buffer",
                 Invalid({"device", "command_pool"}))
  /\ cbState' = IF "command_buffer" \in alive' THEN "initial" ELSE cbState
  /\ UNCHANGED <<config, inst, queue, mem, file, commands, fence, deviceWork, host>>

\* The result of the call just logged
LastResult == log'[Len(log')].res

CreateCommandBuffer_Begin ==
  /\ CheckedCall("vkBeginCommandBuffer", "vkCmdBindPipeline", "vkBeginCommandBuffer",
                 "", Invalid({"command_buffer"}) \/ cbState # "initial")
  /\ IF log' # log /\ LastResult = "VK_SUCCESS"
       THEN cbState' = "recording" /\ commands' = <<>>
       ELSE UNCHANGED <<cbState, commands>>
  /\ UNCHANGED <<config, inst, queue, mem, file, fence, deviceWork, host>>

\* vkCmd*: the command is appended to the recording
Cmd(here, next, op, cmd, uses) ==
  /\ VoidCall(here, next, op, "command_buffer",
              Invalid({"command_buffer"} \cup uses) \/ cbState # "recording")
  /\ commands' = IF log' # log THEN Append(commands, cmd) ELSE commands
  /\ UNCHANGED <<config, inst, queue, mem, file, cbState, fence, deviceWork, host>>

CreateCommandBuffer_BindPipeline ==
  Cmd("vkCmdBindPipeline", "vkCmdBindDescriptorSets", "vkCmdBindPipeline",
      [cmd |-> "BindPipeline", x |-> 0, y |-> 0, z |-> 0], {"pipeline"})

CreateCommandBuffer_BindDescriptorSets ==
  Cmd("vkCmdBindDescriptorSets", "vkCmdDispatch", "vkCmdBindDescriptorSets",
      [cmd |-> "BindDescriptorSets", x |-> 0, y |-> 0, z |-> 0],
      {"pipeline_layout", "descriptor_set"})

CreateCommandBuffer_Dispatch ==
  Cmd("vkCmdDispatch", "vkEndCommandBuffer", "vkCmdDispatch",
      [cmd |-> "Dispatch", x |-> GroupCount(width, groupSize),
       y |-> GroupCount(height, groupSize), z |-> 1], {})

CreateCommandBuffer_End ==
  /\ CheckedCall("vkEndCommandBuffer", "vkCreateFence", "vkEndCommandBuffer",
                 "", Invalid({"command_buffer"}) \/ cbState # "recording")
  /\ IF log' # log
       THEN cbState' = IF LastResult = "VK_SUCCESS" THEN "executable" ELSE "invalid"
       ELSE UNCHANGED cbState
  /\ UNCHANGED <<config, inst, queue, mem, file, commands, fence, deviceWork, host>>

CreateCommandBuffer ==
  \/ CreateCommandBuffer_Pool
  \/ CreateCommandBuffer_Allocate
  \/ CreateCommandBuffer_Begin
  \/ CreateCommandBuffer_BindPipeline
  \/ CreateCommandBuffer_BindDescriptorSets
  \/ CreateCommandBuffer_Dispatch
  \/ CreateCommandBuffer_End

---------------------------------------------------------------------------
(* RunCommandBuffer, and the device executing the submission *)

RunCommandBuffer_CreateFence ==
  /\ CheckedCall("vkCreateFence", "vkQueueSubmit", "vkCreateFence", "fence",
                 Invalid({"device"}))
  /\ fence' = IF "fence" \in alive' THEN "unsignaled" ELSE fence
  /\ UNCHANGED <<config, inst, queue, mem, file, cbState, commands, deviceWork, host>>

\* On success the command buffer is pending on the device.
RunCommandBuffer_Submit ==
  /\ CheckedCall("vkQueueSubmit", "vkWaitForFences", "vkQueueSubmit", "",
                 Invalid({"device", "command_buffer", "fence"}) \/ cbState # "executable")
  /\ IF log' # log /\ LastResult = "VK_SUCCESS"
       THEN cbState' = "pending" /\ deviceWork' = "pending"
       ELSE UNCHANGED <<cbState, deviceWork>>
  /\ UNCHANGED <<config, inst, queue, mem, file, commands, fence, host>>

\* The results vkWaitForFences can return: success once the fence is
\* signalled, a timeout while it is not, an error (device lost) at any time;
\* anything when the fence handle is invalid.  A timeout while the device is
\* still working is a fault of the environment and draws on the budget; with
\* nothing submitted the fence is never signalled and the timeout is certain.
WaitResults ==
  IF Invalid({"device", "fence"}) THEN {"VK_SUCCESS", "VK_TIMEOUT", "VK_ERROR"}
  ELSE IF fence = "signaled" THEN {"VK_SUCCESS", "VK_ERROR"}
  ELSE {"VK_TIMEOUT", "VK_ERROR"}

RunCommandBuffer_Wait ==
  /\ pc = "vkWaitForFences"
  /\ \/ /\ Invalid({"device", "fence"})
        /\ SegFault
        /\ UNCHANGED drv
     \/ \E res \in WaitResults :
          /\ res = "VK_ERROR" => failures < MaxFailures
          /\ (res = "VK_TIMEOUT" /\ deviceWork = "pending") => failures < MaxFailures
          /\ Record("vkWaitForFences", "fence", res)
          /\ UNCHANGED alive
          /\ VK_CHECK_RESULT(res, "vkDestroyFence")
  /\ UNCHANGED <<config, inst, queue, mem, file, gpu, host>>

\* RunCommandBuffer without line 653: the fence is left alive
RunCommandBuffer_DestroyFence_Skipped ==
  /\ pc = "vkDestroyFence"
  /\ Goto("vkMapMemory")
  /\ UNCHANGED <<config, drv, inst, queue, mem, file, gpu, host>>

RunCommandBuffer_DestroyFence ==
  /\ pc = "vkDestroyFence"
  /\ \/ /\ Invalid({"device", "fence"}) \/ deviceWork = "pending"
        /\ SegFault
        /\ UNCHANGED <<drv, fence>>
     \/ /\ Record("vkDestroyFence", "fence", "VK_SUCCESS")
        /\ alive' = alive \ {"fence"}
        /\ fence' = IF "fence" \in alive THEN "destroyed" ELSE fence
        /\ Goto("vkMapMemory")
  /\ UNCHANGED <<config, inst, queue, mem, file, cbState, commands, deviceWork, host>>

RunCommandBuffer ==
  \/ RunCommandBuffer_CreateFence
  \/ RunCommandBuffer_Submit
  \/ RunCommandBuffer_Wait
  \/ RunCommandBuffer_DestroyFence

\* The device finishes the submitted dispatch and signals the fence of the
\* submission.
DeviceFinish ==
  /\ Running
  /\ deviceWork = "pending"
  /\ deviceWork' = "complete"
  /\ fence' = IF fence = "unsignaled" THEN "signaled" ELSE fence
  /\ cbState' = IF cbState = "pending" THEN "invalid" ELSE cbState
  /\ UNCHANGED <<config, ctl, drv, inst, queue, mem, file, commands, host>>

---------------------------------------------------------------------------
(* SaveRenderedImage *)

\* vkMapMemory; its result is not checked.
SaveRenderedImage_Map ==
  /\ pc = "vkMapMemory"
  /\ \/ /\ Invalid({"device", "buffer_memory"})
        /\ SegFault
        /\ UNCHANGED <<drv, mapped_memory>>
     \/ \E res \in {"VK_SUCCESS", "VK_ERROR"} :
          /\ MayReturn(res)
          /\ Record("vkMapMemory", "buffer_memory", res)
          /\ UNCHANGED alive
          /\ mapped_memory' = IF res = "VK_SUCCESS" THEN "mapped" ELSE "nullptr"
          /\ Goto("read")
  /\ UNCHANGED <<config, inst, queue, mem, file, gpu, error, cleanup_i, img>>

\* 255.0f * v for a float v >= 0.  255 * m = 2^8 * m - m has up to 32 bits and
\* is rounded to 24: s low bits are dropped, s = 8 when 255 * m >= 2^31.
Times255(v) ==
  IF v.m = 0 THEN FloatZero
  ELSE LET s == IF 2 * v.m - (v.m + 127) \div 128 >= Pow2(MantissaBits) THEN 8 ELSE 7
           d == Pow2(s)
           r == (d - (v.m % d)) % d
           q == Pow2(8 - s) * v.m - (v.m + d - 1) \div d
       IN  Normalise(RoundNearestEven(q, r, d), v.e + s)

\* The integer part of a float x >= 0 below 2^31
TruncFloat(x) ==
  IF x.m = 0 THEN 0
  ELSE IF x.e >= 0 THEN x.m * Pow2(x.e)
  ELSE IF -x.e >= MantissaBits THEN 0
  ELSE x.m \div Pow2(-x.e)

\* (unsigned char)x for a float x >= 0: the truncated value when it is at most
\* 255; the conversion of a value that unsigned char cannot represent is
\* undefined: builds produce the low byte of the truncated value, or the low
\* byte of a saturated or of an "indefinite" integer conversion (255, 0).
ToUnsignedChar(x) ==
  IF x.m # 0 /\ x.e > 31 - MantissaBits THEN {0, 255}
  ELSE IF TruncFloat(x) <= 255 THEN {TruncFloat(x)}
  ELSE {TruncFloat(x) % 256, 255, 0}

\* The loop of lines 669-674 reads every pixel through pmapped_memory and
\* pushes one byte per channel.
SaveRenderedImage_Read ==
  /\ pc = "read"
  /\ \/ /\ mapped_memory # "mapped"
        /\ SegFault
        /\ UNCHANGED <<drv, pixels_read, read_end, image_size, image_px>>
     \/ /\ Record("read", "buffer_memory", "VK_SUCCESS")
        /\ UNCHANGED alive
        /\ pixels_read' = width * height
        /\ read_end' = (width * height) * SizeofPixel
        /\ image_size' = (width * height) * Channels
        /\ \E r \in ToUnsignedChar(Times255(pixel[1])),
              g \in ToUnsignedChar(Times255(pixel[2])),
              b \in ToUnsignedChar(Times255(pixel[3])),
              a \in ToUnsignedChar(Times255(pixel[4])) : image_px' = <<r, g, b, a>>
        /\ Goto("vkUnmapMemory")
  /\ UNCHANGED <<config, inst, queue, mem, file, gpu, mapped_memory, error, cleanup_i,
                 buffer_size, pixel>>

SaveRenderedImage_Unmap ==
  /\ VoidCall("vkUnmapMemory", "encode", "vkUnmapMemory", "buffer_memory",
              Invalid({"device", "buffer_memory"}) \/ mapped_memory # "mapped")
  /\ mapped_memory' = IF log' # log THEN "unmapped" ELSE mapped_memory
  /\ UNCHANGED <<config, inst, queue, mem, file, gpu, error, cleanup_i, img>>

\* The status values of lodepng::encode: 0, or an error code (79: the file
\* cannot be opened for writing)
EncodeResults == {0, 79}

\* Mutant of SaveRenderedImage_Encode: an encoder error is thrown.
SaveRenderedImage_Encode_Throws ==
  /\ pc = "encode"
  /\ \E err \in EncodeResults :
       /\ error' = err
       /\ stdout' = IF err # 0 THEN stdout \cup {"encoder error"} ELSE stdout
       /\ log' = Append(log, [op |-> "lodepng::encode", obj |-> "image",
                              res |-> IF err = 0 THEN "VK_SUCCESS" ELSE "VK_ERROR"])
       /\ pc' = IF err # 0 THEN "thrown" ELSE "CleanUp"
       /\ e_what' = IF err # 0 THEN "encoder error" ELSE e_what
  /\ UNCHANGED <<exit, alive, failures, config, inst, queue, mem, file, gpu,
                 mapped_memory, cleanup_i, img>>

SaveRenderedImage_Encode ==
  /\ pc = "encode"
  /\ \E err \in EncodeResults :
       /\ error' = err
       /\ stdout' = IF err # 0 THEN stdout \cup {"encoder error"} ELSE stdout
       /\ log' = Append(log, [op |-> "lodepng::encode", obj |-> "image",
                              res |-> IF err = 0 THEN "VK_SUCCESS" ELSE "VK_ERROR"])
  /\ pc' = "CleanUp"
  /\ UNCHANGED <<exit, e_what, alive, failures, config, inst, queue, mem, file, gpu,
                 mapped_memory, cleanup_i, img>>

SaveRenderedImage ==
  \/ SaveRenderedImage_Map
  \/ SaveRenderedImage_Read
  \/ SaveRenderedImage_Unmap
  \/ SaveRenderedImage_Encode

---------------------------------------------------------------------------
(* CleanUp *)

\* Mutant of CleanUpOrder: the pipeline is destroyed before its layout.
CleanUpOrder_PipelineBeforeLayout ==
  << [op |-> "vkFreeMemory",                 obj |-> "buffer_memory"],
     [op |-> "vkDestroyBuffer",              obj |-> "buffer"],
     [op |-> "vkDestroyShaderModule",        obj |-> "compute_shader_module"],
     [op |-> "vkDestroyDescriptorPool",      obj |-> "descriptor_pool"],
     [op |-> "vkDestroyDescriptorSetLayout", obj |-> "descriptor_set_layout"],
     [op |-> "vkDestroyPipeline",            obj |-> "pipeline"],
     [op |-> "vkDestroyPipelineLayout",      obj |-> "pipeline_layout"],
     [op |-> "vkDestroyCommandPool",         obj |-> "command_pool"],
     [op |-> "vkDestroyDevice",              obj |-> "device"],
     [op |-> "vkDestroyInstance",            obj |-> "instance"] >>

\* Mutant of CleanUpOrder: the logical device is destroyed before the command pool.
CleanUpOrder_DeviceBeforePool ==
  << [op |-> "vkFreeMemory",                 obj |-> "buffer_memory"],
     [op |-> "vkDestroyBuffer",              obj |-> "buffer"],
     [op |-> "vkDestroyShaderModule",        obj |-> "compute_shader_module"],
     [op |-> "vkDestroyDescriptorPool",      obj |-> "descriptor_pool"],
     [op |-> "vkDestroyDescriptorSetLayout", obj |-> "descriptor_set_layout"],
     [op |-> "vkDestroyPipelineLayout",      obj |-> "pipeline_layout"],
     [op |-> "vkDestroyPipeline",            obj |-> "pipeline"],
     [op |-> "vkDestroyDevice",              obj |-> "device"],
     [op |-> "vkDestroyCommandPool",         obj |-> "command_pool"],
     [op |-> "vkDestroyInstance",            obj |-> "instance"] >>

\* The destroy calls of lines 697-706, in order
CleanUpOrder ==
  << [op |-> "vkFreeMemory",                 obj |-> "buffer_memory"],
     [op |-> "vkDestroyBuffer",              obj |-> "buffer"],
     [op |-> "vkDestroyShaderModule",        obj |-> "compute_shader_module"],
     [op |-> "vkDestroyDescriptorPool",      obj |-> "descriptor_pool"],
     [op |-> "vkDestroyDescriptorSetLayout", obj |-> "descriptor_set_layout"],
     [op |-> "vkDestroyPipelineLayout",      obj |-> "pipeline_layout"],
     [op |-> "vkDestroyPipeline",            obj |-> "pipeline"],
     [op |-> "vkDestroyCommandPool",         obj |-> "command_pool"],
     [op |-> "vkDestroyDevice",              obj |-> "device"],
     [op |-> "vkDestroyInstance",            obj |-> "instance"] >>

\* The objects freed together with obj: the sets of a descriptor pool, the
\* command buffers of a command pool
Owned(obj) ==
  IF obj = "descriptor_pool" THEN {"descriptor_set"}
  ELSE IF obj = "command_pool" THEN {"command_buffer"}
  ELSE {}

\* The handles a destroy call is given
DestroyUses(obj) == IF obj = "instance" THEN {"instance"} ELSE {"device", obj}

\* CleanUp with the memory freed before the entry point is looked up
CleanUp_LoadCallback_AfterFree ==
  /\ pc = "CleanUp"
  /\ IF kEnableValidationLayers
       THEN \E loaded \in BOOLEAN :
              IF ~loaded THEN Throw("Could not load vkDestroyDebugReportCallbackEXT")
                         ELSE Goto("vkDestroyDebugReportCallbackEXT")
       ELSE Goto("destroy")
  /\ Record("vkFreeMemory", "buffer_memory", "VK_SUCCESS")
  /\ alive' = alive \ {"buffer_memory"}
  /\ UNCHANGED <<config, inst, queue, mem, file, gpu, host>>

\* Lines 688-695: in the build with validation layers the destroy entry point
\* is looked up, and CleanUp throws when it is missing.
CleanUp_LoadCallback ==
  /\ pc = "CleanUp"
  /\ IF kEnableValidationLayers
       THEN \E loaded \in BOOLEAN :
              IF ~loaded THEN Throw("Could not load vkDestroyDebugReportCallbackEXT")
                         ELSE Goto("vkDestroyDebugReportCallbackEXT")
       ELSE Goto("destroy")
  /\ UNCHANGED <<config, drv, inst, queue, mem, file, gpu, host>>

CleanUp_Callback ==
  /\ pc = "vkDestroyDebugReportCallbackEXT"
  /\ \/ /\ Invalid({"instance", "debug_report_callback"})
        /\ SegFault
        /\ UNCHANGED drv
     \/ /\ Record("vkDestroyDebugReportCallbackEXT", "debug_report_callback", "VK_SUCCESS")
        /\ alive' = alive \ {"debug_report_callback"}
        /\ Goto("destroy")
  /\ UNCHANGED <<config, inst, queue, mem, file, gpu, host>>

\* One destroy call of the sequence; destroying an object the pending
\* submission still uses is undefined too.
CleanUp_Destroy ==
  /\ pc = "destroy"
  /\ LET d == CleanUpOrder[cleanup_i] IN
       \/ /\ Invalid(DestroyUses(d.obj)) \/ deviceWork = "pending"
          /\ SegFault
          /\ UNCHANGED <<drv, cleanup_i>>
       \/ /\ Record(d.op, d.obj, "VK_SUCCESS")
          /\ alive' = alive \ ({d.obj} \cup Owned(d.obj))
          /\ cleanup_i' = cleanup_i + 1
          /\ Goto(IF cleanup_i = Len(CleanUpOrder) THEN "Run_returned" ELSE "destroy")
  /\ UNCHANGED <<config, inst, queue, mem, file, gpu, mapped_memory, error, img>>

CleanUp ==
  \/ CleanUp_LoadCallback
  \/ CleanUp_Callback
  \/ CleanUp_Destroy

---------------------------------------------------------------------------
(* main: the catch clause and the normal return *)

\* Mutant of main_catch: the catch clause falls through to "return EXIT_SUCCESS".
main_catch_ReturnsSuccess ==
  /\ pc = "thrown"
  /\ stdout' = stdout \cup {e_what}
  /\ exit' = "EXIT_SUCCESS"
  /\ pc' = "exited"
  /\ UNCHANGED <<e_what, config, drv, inst, queue, mem, file, gpu, host>>

main_catch ==
  /\ pc = "thrown"
  /\ stdout' = stdout \cup {e_what}
  /\ exit' = "EXIT_FAILURE"
  /\ pc' = "exited"
  /\ UNCHANGED <<e_what, config, drv, inst, queue, mem, file, gpu, host>>

main_return ==
  /\ pc = "Run_returned"
  /\ exit' = "EXIT_SUCCESS"
  /\ pc' = "exited"
  /\ UNCHANGED <<stdout, e_what, config, drv, inst, queue, mem, file, gpu, host>>

main == main_catch \/ main_return

Next ==
  \/ Run
  \/ CreateInstance
  \/ FindPhysicalDevice
  \/ CreateDevice
  \/ CreateBuffer
  \/ CreateDescriptorSetLayout
  \/ CreateDescriptorSet
  \/ CreateComputePipeline
  \/ CreateCommandBuffer
  \/ RunCommandBuffer
  \/ DeviceFinish
  \/ SaveRenderedImage
  \/ CleanUp
  \/ main

Spec == Init /\ [][Next]_vars
---------------------------------------------------------------------------
(* The dispatch sizing under other compile-time configurations: the state at
   the vkCmdDispatch call of a run whose earlier calls all succeeded, for a
   range of values of kWidth, kHeight and kWorkgroupeSize. *)

\* 2^24: up to here every int is a float
FloatExactLimit == Pow2(MantissaBits)

Dims ==
  (1..MaxSmallDim) \cup {kWidth, kWidth + 1, kHeight}
    \cup {FloatExactLimit - 1, FloatExactLimit, FloatExactLimit + 1, FloatExactLimit + 3}

Sizes == (1..MaxSmallSize) \cup {kWorkgroupeSize, FloatExactLimit + 1}

Ok(op, obj) == [op |-> op, obj |-> obj, res |-> "VK_SUCCESS"]

\* The calls of a run without failures, up to vkCmdBindDescriptorSets
LogBeforeDispatch(nd) ==
  <<Ok("vkCreateInstance", "instance")>> \o
  (IF nd THEN <<>> ELSE <<Ok("vkCreateDebugReportCallbackEXT", "debug_report_callback")>>) \o
  <<Ok("vkCreateDevice", "device"), Ok("vkGetDeviceQueue", "queue"),
    Ok("vkCreateBuffer", "buffer"), Ok("vkGetBufferMemoryRequirements", "buffer"),
    Ok("vkAllocateMemory", "buffer_memory"), Ok("vkBindBufferMemory", ""),
    Ok("vkCreateDescriptorSetLayout", "descriptor_set_layout"),
    Ok("vkCreateDescriptorPool", "descriptor_pool"),
    Ok("vkAllocateDescriptorSets", "descriptor_set"),
    Ok("vkUpdateDescriptorSets", "descriptor_set"),
    Ok("vkCreateShaderModule", "compute_shader_module"),
    Ok("vkCreatePipelineLayout", "pipeline_layout"),
    Ok("vkCreateComputePipelines", "pipeline"),
    Ok("vkCreateCommandPool", "command_pool"),
    Ok("vkAllocateCommandBuffers", "command_buffer"),
    Ok("vkBeginCommandBuffer", ""),
    Ok("vkCmdBindPipeline", "command_buffer"),
    Ok("vkCmdBindDescriptorSets", "command_buffer")>>

AtDispatch ==
  /\ pc = "vkCmdDispatch"
  /\ exit = "running"
  /\ stdout = {}
  /\ e_what = ""
  /\ log = LogBeforeDispatch(ndebug)
  /\ alive = {"instance", "device", "buffer", "buffer_memory", "descriptor_set_layout",
              "descriptor_pool", "descriptor_set", "compute_shader_module",
              "pipeline_layout", "pipeline", "command_pool", "command_buffer"}
             \cup (IF ndebug THEN {} ELSE {"debug_report_callback"})
  /\ failures = 0
  /\ layer_properties = <<>>
  /\ extension_properties = <<>>
  /\ device_count = 0
  /\ physical_device = 1
  /\ queue_families = <<>>
  /\ queue_family_index = 0
  /\ memory_type_bits = 0
  /\ memory_properties = <<>>
  /\ memoryTypeIndex = 0
  /\ fp = "none"
  /\ filesize = 0
  /\ file_length = 0
  /\ contents = <<>>
  /\ code = <<>>
  /\ buffer_size = BufferSize(width, height)
  /\ pixel = <<FloatZero, FloatZero, FloatZero, FloatOne>>
  /\ cbState = "recording"
  /\ commands = <<[cmd |-> "BindPipeline", x |-> 0, y |-> 0, z |-> 0],
                  [cmd |-> "BindDescriptorSets", x |-> 0, y |-> 0, z |-> 0]>>
  /\ fence = "none"
  /\ deviceWork = "none"
  /\ mapped_memory = "nullptr"
  /\ error = 0
  /\ cleanup_i = 1
  /\ pixels_read = 0
  /\ read_end = 0
  /\ image_size = 0
  /\ image_px = <<>>

InitDispatch ==
  /\ ndebug \in BOOLEAN
  /\ width \in Dims
  /\ height \in Dims
  /\ groupSize \in Sizes
  /\ AtDispatch

NextDispatch == CreateCommandBuffer_Dispatch

SpecDispatch == InitDispatch /\ [][NextDispatch]_vars

(***************************************************************************)
(* FindMemoryType on the largest tables a driver can report.  The program  *)
(* is started at the call of line 397 with a requirement mask that uses    *)
(* the lowest and the highest bits, and the driver's table has             *)
(* VK_MAX_MEMORY_TYPES entries (or one less) whose suitable types sit at   *)
(* the two ends.                                                           *)
(***************************************************************************)
VK_MAX_MEMORY_TYPES == 32

\* The indices at the two ends of a full table
EndIndices == {0, 1, VK_MAX_MEMORY_TYPES - 2, VK_MAX_MEMORY_TYPES - 1}

\* The 32-bit pattern with exactly the bits of Q set
MaskOf(Q) ==
  (IF 0 \in Q THEN 1 ELSE 0) + (IF 1 \in Q THEN 2 ELSE 0)
  + (IF VK_MAX_MEMORY_TYPES - 2 \in Q THEN Pow2(VK_MAX_MEMORY_TYPES - 2) ELSE 0)
  + (IF VK_MAX_MEMORY_TYPES - 1 \in Q THEN INT32_MIN ELSE 0)

\* All ones except the bits of Q
MaskWithout(Q) == UINT32_MINUS_ONE - MaskOf(Q)

EndMasks == {MaskOf(Q) : Q \in SUBSET EndIndices} \cup {MaskWithout(Q) : Q \in SUBSET EndIndices}

\* A table of n types that are device-local only (flags 1), except those of
\* P, which carry the flags f
TableOf(n, P, f) == [i \in 1..n |-> IF (i - 1) \in P THEN f ELSE 1]

FullTables ==
  {TableOf(n, P, f) : n \in {VK_MAX_MEMORY_TYPES - 1, VK_MAX_MEMORY_TYPES},
                      P \in SUBSET EndIndices,
                      f \in {kHostProperties, kHostProperties + 1,
                             VK_MEMORY_PROPERTY_HOST_VISIBLE_BIT}}

LogBeforeFindMemoryType(nd) == SubSeq(LogBeforeDispatch(nd), 1, IF nd THEN 5 ELSE 6)

AtFindMemoryType ==
  /\ pc = "FindMemoryType"
  /\ exit = "running"
  /\ stdout = {}
  /\ e_what = ""
  /\ log = LogBeforeFindMemoryType(ndebug)
  /\ alive = {"instance", "device", "buffer"}
             \cup (IF ndebug THEN {} ELSE {"debug_report_callback"})
  /\ failures = 0
  /\ layer_properties = <<>>
  /\ extension_properties = <<>>
  /\ device_count = 0
  /\ physical_device = 1
  /\ queue_families = <<>>
  /\ queue_family_index = 0
  /\ memory_properties = <<>>
  /\ memoryTypeIndex = 0
  /\ fp = "none"
  /\ filesize = 0
  /\ file_length = 0
  /\ contents = <<>>
  /\ code = <<>>
  /\ buffer_size = BufferSize(width, height)
  /\ pixel = <<FloatZero, FloatZero, FloatZero, FloatOne>>
  /\ cbState = "none"
  /\ commands = <<>>
  /\ fence = "none"
  /\ deviceWork = "none"
  /\ mapped_memory = "nullptr"
  /\ error = 0
  /\ cleanup_i = 1
  /\ pixels_read = 0
  /\ read_end = 0
  /\ image_size = 0
  /\ image_px = <<>>

InitFindMemoryType ==
  /\ ndebug \in BOOLEAN
  /\ width = kWidth
  /\ height = kHeight
  /\ groupSize = kWorkgroupeSize
  /\ memory_type_bits \in EndMasks
  /\ AtFindMemoryType

NextFindMemoryType == FindMemoryType_Call(FullTables)

SpecFindMemoryType == InitFindMemoryType /\ [][NextFindMemoryType]_vars

(***************************************************************************)
(* ReadFile on files of every size class.  The program is started inside   *)
(* ReadFile after a successful fopen, with a small file whose bytes are    *)
(* all followed, or with a file whose size is close to INT_MAX, of which   *)
(* the last bytes are followed.                                            *)
(***************************************************************************)
LargeFileSizes == {INT32_MAX - k : k \in 0..7}

FileSizes == (0..MaxFileSize) \cup LargeFileSizes

LogBeforeReadFile(nd) == SubSeq(LogBeforeDispatch(nd), 1, IF nd THEN 11 ELSE 12)

AtReadFile ==
  /\ pc = "fseek"
  /\ exit = "running"
  /\ stdout = {}
  /\ e_what = ""
  /\ log = LogBeforeReadFile(ndebug)
  /\ alive = {"instance", "device", "buffer", "buffer_memory", "descriptor_set_layout",
              "descriptor_pool", "descriptor_set"}
             \cup (IF ndebug THEN {} ELSE {"debug_report_callback"})
  /\ failures = 0
  /\ layer_properties = <<>>
  /\ extension_properties = <<>>
  /\ device_count = 0
  /\ physical_device = 1
  /\ queue_families = <<>>
  /\ queue_family_index = 0
  /\ memory_type_bits = 0
  /\ memory_properties = <<>>
  /\ memoryTypeIndex = 0
  /\ fp = "open"
  /\ file_length = 0
  /\ code = <<>>
  /\ buffer_size = BufferSize(width, height)
  /\ pixel = <<FloatZero, FloatZero, FloatZero, FloatOne>>
  /\ cbState = "none"
  /\ commands = <<>>
  /\ fence = "none"
  /\ deviceWork = "none"
  /\ mapped_memory = "nullptr"
  /\ error = 0
  /\ cleanup_i = 1
  /\ pixels_read = 0
  /\ read_end = 0
  /\ image_size = 0
  /\ image_px = <<>>

InitReadFile ==
  /\ ndebug \in BOOLEAN
  /\ width = kWidth
  /\ height = kHeight
  /\ groupSize = kWorkgroupeSize
  /\ filesize \in FileSizes
  /\ contents \in [1..Window(filesize) -> Bytes]
  /\ AtReadFile

NextReadFile == ReadFile_Read

SpecReadFile == InitReadFile /\ [][NextReadFile]_vars

---------------------------------------------------------------------------
(* The readback loop alone, for every pixel value: the state in which a run
   without failures reaches the loop of SaveRenderedImage *)

\* The float nearest to 1/255 from below is NearInv255 * 2^-31
NearInv255 == 8421504

\* Channel values the device may have written: 0, the floats around 1/255,
\* the floats around 1, the floats around 256/255, and 2
ChannelValues ==
  {FloatZero, FloatOne,
   [m |-> NearInv255, e |-> -31], [m |-> NearInv255 + 1, e |-> -31],
   [m |-> Pow2(MantissaBits) - 1, e |-> -MantissaBits],
   [m |-> Pow2(MantissaBits - 1) + 1, e |-> 1 - MantissaBits],
   [m |-> NearInv255, e |-> 1 - MantissaBits],
   [m |-> NearInv255 + 1, e |-> 1 - MantissaBits],
   [m |-> Pow2(MantissaBits - 1), e |-> 2 - MantissaBits]}

LogBeforeRead(nd) ==
  LogBeforeDispatch(nd) \o
  <<Ok("vkCmdDispatch", "command_buffer"), Ok("vkEndCommandBuffer", ""),
    Ok("vkCreateFence", "fence"), Ok("vkQueueSubmit", ""),
    Ok("vkWaitForFences", "fence"), Ok("vkDestroyFence", "fence"),
    Ok("vkMapMemory", "buffer_memory")>>

AtRead ==
  /\ pc = "read"
  /\ exit = "running"
  /\ stdout = {}
  /\ e_what = ""
  /\ log = LogBeforeRead(ndebug)
  /\ alive = {"instance", "device", "buffer", "buffer_memory", "descriptor_set_layout",
              "descriptor_pool", "descriptor_set", "compute_shader_module",
              "pipeline_layout", "pipeline", "command_pool", "command_buffer"}
             \cup (IF ndebug THEN {} ELSE {"debug_report_callback"})
  /\ failures = 0
  /\ layer_properties = <<>>
  /\ extension_properties = <<>>
  /\ device_count = 0
  /\ physical_device = 1
  /\ queue_families = <<>>
  /\ queue_family_index = 0
  /\ memory_type_bits = 0
  /\ memory_properties = <<>>
  /\ memoryTypeIndex = 0
  /\ fp = "none"
  /\ filesize = 0
  /\ file_length = 0
  /\ contents = <<>>
  /\ code = <<>>
  /\ buffer_size = BufferSize(width, height)
  /\ cbState = "invalid"
  /\ commands = <<[cmd |-> "BindPipeline", x |-> 0, y |-> 0, z |-> 0],
                  [cmd |-> "BindDescriptorSets", x |-> 0, y |-> 0, z |-> 0],
                  [cmd |-> "Dispatch", x |-> GroupCount(width, groupSize),
                   y |-> GroupCount(height, groupSize), z |-> 1]>>
  /\ fence = "destroyed"
  /\ deviceWork = "complete"
  /\ mapped_memory = "mapped"
  /\ error = 0
  /\ cleanup_i = 1
  /\ pixels_read = 0
  /\ read_end = 0
  /\ image_size = 0
  /\ image_px = <<>>

InitReadback ==
  /\ ndebug \in BOOLEAN
  /\ width = kWidth
  /\ height = kHeight
  /\ groupSize = kWorkgroupeSize
  /\ pixel \in [1..Channels -> ChannelValues]
  /\ AtRead

NextReadback == SaveRenderedImage_Read

SpecReadback == InitReadback /\ [][NextReadback]_vars

---------------------------------------------------------------------------
(* Vocabulary of the properties *)

Terminated == pc \in {"exited", "aborted", "crashed"}

ExitsNonZero == exit \in {"EXIT_FAILURE", "SIGABRT", "SIGSEGV"}

Called(op) == \E i \in 1..Len(log) : log[i].op = op

Succeeded(op) == \E i \in 1..Len(log) : log[i].op = op /\ log[i].res = "VK_SUCCESS"

\* The run stopped at call i: nothing was called after it and the process
\* ended with a non-zero status.
StoppedAt(i) == i = Len(log) /\ Terminated /\ ExitsNonZero

\* The calls of setup and submission whose result goes through VK_CHECK_RESULT
SetupCalls ==
  {"vkCreateInstance", "vkCreateDebugReportCallbackEXT", "vkCreateDevice", "vkCreateBuffer",
   "vkAllocateMemory", "vkBindBufferMemory", "vkCreateDescriptorSetLayout",
   "vkCreateDescriptorPool", "vkAllocateDescriptorSets", "vkCreateShaderModule",
   "vkCreatePipelineLayout", "vkCreateComputePipelines", "vkCreateCommandPool",
   "vkAllocateCommandBuffers", "vkBeginCommandBuffer", "vkEndCommandBuffer",
   "vkCreateFence", "vkQueueSubmit"}

---------------------------------------------------------------------------
(* C1 *)

\* C1 (as stated): in both build configurations the buffer memory is mapped
\* only after the wait on the fence of the submission returned success, and
\* never while the submitted dispatch is still pending on the device.
C1_MapOnlyAfterFenceSignalled ==
  mapped_memory = "mapped" =>
    /\ Succeeded("vkWaitForFences")
    /\ deviceWork # "pending"

---------------------------------------------------------------------------
(* C2 *)

\* C2 (as stated): when vkWaitForFences returns a timeout or an error the run
\* stops there in every build configuration: no call follows it and the
\* process does not exit with code 0.
C2_WaitFailureIsFatal ==
  \A i \in 1..Len(log) :
    (log[i].op = "vkWaitForFences" /\ log[i].res # "VK_SUCCESS") => StoppedAt(i)

---------------------------------------------------------------------------
(* C3 *)

\* C3 (as stated): when a checked driver call of setup or submission returns a
\* non-success result the run stops at that call in every build
\* configuration: no later step executes and the process exits non-zero.
C3_SetupFailureIsFatal ==
  \A i \in 1..Len(log) :
    (log[i].op \in SetupCalls /\ log[i].res # "VK_SUCCESS") => StoppedAt(i)

---------------------------------------------------------------------------
(* C4 *)

\* C4 (as stated): whenever the run gets from FindMemoryType to the memory
\* allocation, the index is a valid memory type index whose bit is set in the
\* required-type bitmask and whose flags contain host-visible and host-coherent.
C4_MemoryTypeSuitableOrRunFails ==
  pc = "vkAllocateMemory" =>
    /\ memoryTypeIndex >= 0
    /\ memoryTypeIndex < Len(memory_properties)
    /\ BitAnd(memory_type_bits, Pow2(memoryTypeIndex)) # 0
    /\ BitAnd(memory_properties[memoryTypeIndex + 1], VK_MEMORY_PROPERTY_HOST_VISIBLE_BIT) # 0
    /\ BitAnd(memory_properties[memoryTypeIndex + 1], VK_MEMORY_PROPERTY_HOST_COHERENT_BIT) # 0

---------------------------------------------------------------------------
(* C5 *)

NoComputeFamily ==
  \A i \in 1..Len(queue_families) :
    BitAnd(queue_families[i].queueFlags, VK_QUEUE_COMPUTE_BIT) = 0

\* A runtime error is raised by the step, which calls nothing
Raises == pc' = "thrown" /\ e_what' # "" /\ log' = log /\ alive' = alive

\* C5: when no physical device is enumerated, or no queue family has the
\* compute capability, or (validation layers requested) the layer or the
\* debug-report extension is not among the enumerated ones, the step raises a
\* runtime error; main catches every raised error: it prints the message and
\* exits with EXIT_FAILURE without any further call; after the exit nothing
\* executes.
C5_EnvironmentErrorsAreCaught ==
  [][ /\ (pc = "device_count" /\ device_count = 0) => Raises
      /\ (pc = "GetComputeQueueFamilyIndex" /\ NoComputeFamily) => Raises
      /\ (pc = "found_layer" /\ kValidationLayer \notin Range(layer_properties)) => Raises
      /\ (pc = "found_extension" /\ kDebugReportExt \notin Range(extension_properties))
           => Raises
      /\ pc = "thrown" => /\ pc' = "exited"
                          /\ exit' = "EXIT_FAILURE"
                          /\ e_what \in stdout'
                          /\ log' = log /\ alive' = alive /\ UNCHANGED gpu
      /\ pc # "exited"
    ]_vars

\* C5 witness: a run that found no physical device has printed the message
\* and exited with EXIT_FAILURE.
C5_Witness ==
  /\ pc = "exited"
  /\ exit = "EXIT_FAILURE"
  /\ device_count = 0
  /\ e_what = "could not find a device with vulkan support"
  /\ e_what \in stdout
  /\ ~Called("vkCreateDevice")

---------------------------------------------------------------------------
(* C6 *)

\* C6 (as stated): when shaders/comp.spv cannot be opened the run ends as a
\* fatal error: no shader module, pipeline or command buffer is created,
\* nothing is submitted, and the process exits non-zero.
C6_MissingKernelIsFatal ==
  "Could not find or open file" \in stdout =>
    /\ ~Called("vkCreateShaderModule")
    /\ ~Called("vkCreateComputePipelines")
    /\ ~Called("vkAllocateCommandBuffers")
    /\ ~Called("vkQueueSubmit")
    /\ Terminated => ExitsNonZero

---------------------------------------------------------------------------
(* C7 *)

\* The resources CleanUp owns, each with the call that creates it
CreateCallOf ==
  [instance |-> "vkCreateInstance", debug_report_callback |-> "vkCreateDebugReportCallbackEXT",
   device |-> "vkCreateDevice", buffer |-> "vkCreateBuffer",
   buffer_memory |-> "vkAllocateMemory",
   descriptor_set_layout |-> "vkCreateDescriptorSetLayout",
   descriptor_pool |-> "vkCreateDescriptorPool",
   compute_shader_module |-> "vkCreateShaderModule",
   pipeline_layout |-> "vkCreatePipelineLayout", pipeline |-> "vkCreateComputePipelines",
   command_pool |-> "vkCreateCommandPool"]

OwnedResources == DOMAIN CreateCallOf

TeardownCalls ==
  {"vkDestroyDebugReportCallbackEXT", "vkFreeMemory", "vkDestroyBuffer",
   "vkDestroyShaderModule", "vkDestroyDescriptorPool", "vkDestroyDescriptorSetLayout",
   "vkDestroyPipelineLayout", "vkDestroyPipeline", "vkDestroyCommandPool",
   "vkDestroyDevice", "vkDestroyInstance"}

Created(obj) ==
  \E i \in 1..Len(log) :
    log[i].op = CreateCallOf[obj] /\ log[i].obj = obj /\ log[i].res = "VK_SUCCESS"

CreatedAt(obj) ==
  CHOOSE i \in 1..Len(log) :
    log[i].op = CreateCallOf[obj] /\ log[i].obj = obj /\ log[i].res = "VK_SUCCESS"

DestroyCalled(obj) ==
  \E i \in 1..Len(log) : log[i].op \in TeardownCalls /\ log[i].obj = obj

DestroyedAt(obj) ==
  CHOOSE i \in 1..Len(log) : log[i].op \in TeardownCalls /\ log[i].obj = obj

IsTeardownCall(e) == e.op \in TeardownCalls

\* The objects CleanUp has destroyed so far, in order
Teardown ==
  LET calls == SelectSeq(log, IsTeardownCall) IN [i \in 1..Len(calls) |-> calls[i].obj]

DocumentedTeardown ==
  (IF ndebug THEN <<>> ELSE <<"debug_report_callback">>) \o
  <<"buffer_memory", "buffer", "compute_shader_module", "descriptor_pool",
    "descriptor_set_layout", "pipeline_layout", "pipeline", "command_pool",
    "device", "instance">>

IsPrefix(s, t) == Len(s) <= Len(t) /\ \A i \in 1..Len(s) : s[i] = t[i]

---------------------------------------------------------------------------
(* C8 *)

DeviceOwned ==
  {"buffer", "buffer_memory", "descriptor_set_layout", "descriptor_pool", "descriptor_set",
   "compute_shader_module", "pipeline_layout", "pipeline", "command_pool",
   "command_buffer", "fence"}

\* <<x, y>>: y depends on x
DeviceAndInstanceDependencies ==
  {<<"device", o>> : o \in DeviceOwned}
    \cup {<<"instance", "device">>, <<"instance", "debug_report_callback">>}

ObjectDependencies ==
  {<<"buffer_memory", "buffer">>, <<"descriptor_set_layout", "pipeline_layout">>,
   <<"pipeline_layout", "pipeline">>, <<"compute_shader_module", "pipeline">>}

\* C8 (as stated): no resource has been destroyed while a resource that
\* depends on it still exists.
C8_NoDestroyBeforeDependent ==
  \A d \in ObjectDependencies \cup DeviceAndInstanceDependencies :
    DestroyCalled(d[1]) => d[2] \notin alive

\* C8 (amended): the logical device is destroyed after every device-owned
\* object, and the instance after the logical device and the debug callback.
C8_DeviceAndInstanceDestroyedLast ==
  \A d \in DeviceAndInstanceDependencies :
    DestroyCalled(d[1]) => d[2] \notin alive

\* C8 witness: every object was created, and CleanUp has destroyed the
\* device and the instance.
C8_Witness ==
  /\ \A r \in OwnedResources \ {"debug_report_callback"} : Created(r)
  /\ Succeeded("vkAllocateCommandBuffers") /\ Succeeded("vkAllocateDescriptorSets")
  /\ Succeeded("vkCreateFence")
  /\ DestroyCalled("device") /\ DestroyCalled("instance")
  /\ alive = {}

---------------------------------------------------------------------------
(* C9 *)

\* x is the smallest integer with x * size >= n
SmallestCover(x, n, size) == x * size >= n /\ (x - 1) * size < n

Dispatches == {i \in 1..Len(commands) : commands[i].cmd = "Dispatch"}

\* C9 (as stated): for every positive width, height and group size the
\* dispatch uses the smallest group counts that cover the width and the
\* height, and 1 on the Z axis.
C9_GroupCountsCoverForAll ==
  \A i \in Dispatches :
    /\ SmallestCover(commands[i].x, width, groupSize)
    /\ SmallestCover(commands[i].y, height, groupSize)
    /\ commands[i].z = 1

\* C9 (amended): the same for every positive group size and every positive
\* width and height up to 2^24 = 16777216, the largest range of ints that
\* float represents exactly (the configured 3200 x 2400 with 32 is in it).
C9_GroupCountsCoverUpToFloatLimit ==
  \A i \in Dispatches :
    /\ width <= FloatExactLimit => SmallestCover(commands[i].x, width, groupSize)
    /\ height <= FloatExactLimit => SmallestCover(commands[i].y, height, groupSize)
    /\ commands[i].z = 1

\* C9 witness: a width of 3201 with group size 32 was dispatched as 101 groups.
C9_Witness ==
  /\ width = kWidth + 1
  /\ groupSize = kWorkgroupeSize
  /\ \E i \in Dispatches : commands[i].x = 101

---------------------------------------------------------------------------
(* C10 *)

---------------------------------------------------------------------------
(* C11 *)

\* a * b fits an int
FitsInt(a, b) == a <= INT32_MAX \div b

\* C11: buffer_size is width * height * 16 and the loop reads width * height
\* pixels, all inside the first buffer_size bytes of the mapped memory; it
\* pushes 4 bytes per pixel, so that the image handed to the encoder has
\* width * height * 4 bytes; none of the products leaves the range of int.
C11_ReadbackSizes ==
  /\ FitsInt(width, height)
  /\ FitsInt(width * height, SizeofPixel)
  /\ pc # "Run" => buffer_size = width * height * SizeofPixel
  /\ Called("read") =>
       /\ pixels_read = width * height
       /\ read_end <= buffer_size
       /\ image_size = pixels_read * Channels
       /\ Len(image_px) = Channels
  /\ Called("lodepng::encode") => image_size = width * height * 4

\* C11 witness: the encoder was handed the 30720000 bytes of the 3200 x 2400 image.
C11_Witness ==
  /\ Called("lodepng::encode")
  /\ width = kWidth /\ height = kHeight
  /\ image_size = 30720000
  /\ read_end = 122880000

---------------------------------------------------------------------------
(* C12 *)

\* v <= 1.0
AtMostOne(v) == v.m = 0 \/ v.e < 1 - MantissaBits \/ v = FloatOne

\* b <= 255 * v in exact arithmetic, for v = m * 2^e <= 1:
\* b * 2^k <= 2^8 * m - m  with k = -e
AtMost255Times(b, v) ==
  \/ b = 0
  \/ /\ v.m # 0
     /\ -v.e <= 32
     /\ b <= Pow2(32 + v.e)
     /\ (v.m + 255) \div 256 <= v.m - b * Pow2(-v.e - 8)

\* The truncation of 255 * v in exact arithmetic, for v <= 1
ExactByte(v) == CHOOSE b \in 0..255 : AtMost255Times(b, v) /\ ~AtMost255Times(b + 1, v)

Clamped(c) == image_px[c] = 255
Wrapped(c) == image_px[c] = TruncFloat(Times255(pixel[c])) % 256

\* C12 (as stated): 1.0 is converted to 255 and 0.0 to 0, every value in
\* [0, 1] to the truncation of 255 * v, and the values above 1.0 of a
\* readback all by one policy: all clamped to 255, or all wrapped modulo 256.
C12_OneConversionPolicy ==
  image_px # <<>> =>
    /\ \A c \in 1..Channels :
         /\ pixel[c] = FloatOne => image_px[c] = 255
         /\ pixel[c] = FloatZero => image_px[c] = 0
         /\ AtMostOne(pixel[c]) => image_px[c] = ExactByte(pixel[c])
    /\ \/ \A c \in 1..Channels : ~AtMostOne(pixel[c]) => Clamped(c)
       \/ \A c \in 1..Channels : ~AtMostOne(pixel[c]) => Wrapped(c)

---------------------------------------------------------------------------
(* C13 *)

NoFamilyMessage == "could not find a queue family that supports operations"

\* What an invocation does, as a function of the enumeration alone: the index
\* it returns, or the message of the error it raises
Outcome(families) ==
  LET i == ComputeFamilyFrom(0, families) IN
    IF i = Len(families) THEN [raises |-> NoFamilyMessage, index |-> 0]
                         ELSE [raises |-> "", index |-> i]

---------------------------------------------------------------------------
(* C14 *)

HasCompute(f) == BitAnd(f.queueFlags, VK_QUEUE_COMPUTE_BIT) # 0

FlaggedFamilies(families) == {i \in 0..(Len(families) - 1) : HasCompute(families[i + 1])}

UsableFamilies(families) ==
  {i \in FlaggedFamilies(families) : families[i + 1].queueCount > 0}

Lowest(S) == CHOOSE i \in S : \A j \in S : i <= j

\* The first enumerated device: the devices are numbered in enumeration order.
FirstDeviceSelected ==
  (pc = "device_count" /\ device_count > 0) =>
    (physical_device' = 1 /\ pc' = "vkGetPhysicalDeviceQueueFamilyProperties")

\* C14 (as stated): the first enumerated device is selected; the index
\* returned is the lowest one whose family has the compute flag, and the
\* error is raised exactly when no family has the flag.
C14_FirstFlaggedFamily ==
  [][/\ FirstDeviceSelected
     /\ pc = "GetComputeQueueFamilyIndex" =>
          IF FlaggedFamilies(queue_families) = {}
            THEN pc' = "thrown"
            ELSE /\ pc' = "vkCreateDevice"
                 /\ queue_family_index' = Lowest(FlaggedFamilies(queue_families))
    ]_vars

\* C14 (amended): the first enumerated device is selected; the index returned
\* is the lowest one whose family has the compute flag and at least one
\* queue, and the error is raised exactly when no family has both.
C14_FirstUsableFamily ==
  [][/\ FirstDeviceSelected
     /\ pc = "GetComputeQueueFamilyIndex" =>
          IF UsableFamilies(queue_families) = {}
            THEN pc' = "thrown"
            ELSE /\ pc' = "vkCreateDevice"
                 /\ queue_family_index' = Lowest(UsableFamilies(queue_families))
    ]_vars

\* C14 witness: the device was created from the first physical device with
\* the queue family of index 1.
C14_Witness ==
  /\ Succeeded("vkCreateDevice")
  /\ physical_device = 1
  /\ queue_family_index = 1


\* Bit i of a 32-bit pattern
BitSet(x, i) == IF i = 31 THEN x < 0 ELSE (x \div Pow2(i)) % 2 = 1

\* The memory types that are allowed by the requirement mask and are both
\* host-visible and host-coherent
SuitableTypes ==
  {i \in 0..(Len(memory_properties) - 1) :
     /\ BitSet(memory_type_bits, i)
     /\ BitSet(memory_properties[i + 1], 1)
     /\ BitSet(memory_properties[i + 1], 2)}

\* C15: when FindMemoryType has returned and some memory type is both allowed
\* by the requirement mask and host-visible and host-coherent, the index it
\* returned is the lowest such type.
C15_LowestSuitableType ==
  (pc = "vkAllocateMemory" /\ SuitableTypes # {}) => memoryTypeIndex = Lowest(SuitableTypes)

\* C15 happens: in a table of 32 types the only suitable one is the last,
\* although earlier types are allowed by the mask or have the flags
C15_Witness ==
  /\ pc = "vkAllocateMemory"
  /\ Len(memory_properties) = VK_MAX_MEMORY_TYPES
  /\ memoryTypeIndex = VK_MAX_MEMORY_TYPES - 1
  /\ BitSet(memory_type_bits, 0)
  /\ memory_properties[2] = kHostProperties
  /\ SuitableTypes = {VK_MAX_MEMORY_TYPES - 1}


\* The names of the commands in the command buffer, in recording order
RecordedCommands == [i \in 1..Len(commands) |-> commands[i].cmd]

\* C16: whenever the command buffer is submitted to the queue, its recording
\* has been begun, filled with bind pipeline, bind descriptor set and dispatch
\* in this order, and ended: it is executable and holds exactly these commands.
C16_RecordedBeforeSubmitted ==
  [][(pc = "vkQueueSubmit" /\ log' # log)
       => /\ cbState = "executable"
          /\ RecordedCommands = <<"BindPipeline", "BindDescriptorSets", "Dispatch">>]_vars


\* The positions of the calls of op in the log
CallsOf(op) == {i \in 1..Len(log) : log[i].op = op}

\* C17: a queue submission is made with the one fence of the run: when
\* vkQueueSubmit has been called, exactly one fence has been created, before
\* the submission, and the fence is destroyed only after the wait on it and
\* before teardown.
C17_OneFencePerRun ==
  /\ Cardinality(CallsOf("vkCreateFence")) <= 1
  /\ Cardinality(CallsOf("vkQueueSubmit")) <= 1
  /\ \A s \in CallsOf("vkQueueSubmit") :
       \E c \in CallsOf("vkCreateFence") : c < s /\ log[c].res = "VK_SUCCESS"
  /\ \A d \in CallsOf("vkDestroyFence") :
       /\ \E w \in CallsOf("vkWaitForFences") : w < d
       /\ \A t \in 1..d : ~IsTeardownCall(log[t])


\* The components in the order Run invokes them (lines 124-143), each with the
\* positions of the program inside it, in program order; the first entry is
\* Run before its first call, the last is Run after its last.
Components ==
  << <<"Run">>,
     <<"vkEnumerateInstanceLayerProperties", "found_layer",
       "vkEnumerateInstanceExtensionProperties", "found_extension", "vkCreateInstance",
       "vkGetInstanceProcAddr_create", "vkCreateDebugReportCallbackEXT">>,
     <<"vkEnumeratePhysicalDevices", "device_count">>,
     <<"vkGetPhysicalDeviceQueueFamilyProperties", "GetComputeQueueFamilyIndex",
       "vkCreateDevice", "vkGetDeviceQueue">>,
     <<"vkCreateBuffer", "vkGetBufferMemoryRequirements", "FindMemoryType",
       "vkAllocateMemory", "vkBindBufferMemory">>,
     <<"vkCreateDescriptorSetLayout">>,
     <<"vkCreateDescriptorPool", "vkAllocateDescriptorSets", "vkUpdateDescriptorSets">>,
     <<"fopen", "fseek", "vkCreateShaderModule", "vkCreatePipelineLayout",
       "vkCreateComputePipelines">>,
     <<"vkCreateCommandPool", "vkAllocateCommandBuffers", "vkBeginCommandBuffer",
       "vkCmdBindPipeline", "vkCmdBindDescriptorSets", "vkCmdDispatch",
       "vkEndCommandBuffer">>,
     <<"vkCreateFence", "vkQueueSubmit", "vkWaitForFences", "vkDestroyFence">>,
     <<"vkMapMemory", "read", "vkUnmapMemory", "encode">>,
     <<"CleanUp", "vkDestroyDebugReportCallbackEXT", "destroy">>,
     <<"Run_returned">> >>

\* The positions at which the process has ended or the stack is unwinding
Stops == {"thrown", "aborted", "crashed", "exited"}

InComponent(p, c) == \E k \in 1..Len(Components[c]) : Components[c][k] = p

\* The component a position belongs to, and its place inside the component
ComponentOf(p) == CHOOSE c \in 1..Len(Components) : InComponent(p, c)

PlaceOf(p) ==
  CHOOSE k \in 1..Len(Components[ComponentOf(p)]) : Components[ComponentOf(p)][k] = p

\* The last driver call of each component that changes the driver's state
\* (FindPhysicalDevice only enumerates and sets physical_device)
LastCalls ==
  <<"vkCreateInstance", "vkGetDeviceQueue",
    "vkBindBufferMemory", "vkCreateDescriptorSetLayout", "vkUpdateDescriptorSets",
    "vkCreateComputePipelines", "vkEndCommandBuffer", "vkDestroyFence", "vkUnmapMemory",
    "vkDestroyInstance">>

\* A step of the host inside Run: it stays in its component and moves
\* forward there, or it enters the next component
MovesForward ==
  \/ /\ ComponentOf(pc') = ComponentOf(pc)
     /\ PlaceOf(pc') >= PlaceOf(pc)
  \/ ComponentOf(pc') = ComponentOf(pc) + 1

\* C18: the host goes through the components of Run in the fixed order, one
\* after the other: a step never returns to an earlier component or an
\* earlier call and never skips a component, no driver call is made twice,
\* and when Run returns every component has made its calls.
C18_ComponentsOnceInOrder ==
  /\ [](pc \in Stops \/ \E c \in 1..Len(Components) : InComponent(pc, c))
  /\ [][pc \notin Stops /\ pc' \notin Stops => MovesForward]_vars
  /\ [](\A i, j \in 1..Len(log) : log[i].op = log[j].op => i = j)
  /\ [](pc = "Run_returned" =>
          /\ \A k \in 1..Len(LastCalls) : Called(LastCalls[k])
          /\ physical_device # 0)

\* C18 happens: Run has returned after all its components
C18_Witness == pc = "Run_returned" /\ Called("vkCreateInstance") /\ Called("vkDestroyInstance")


\* C19: the buffer memory is mapped at most once, the host enters the loop
\* that reads the pixels only while the memory is mapped, and the encoder is
\* called and the memory is freed only after the one vkUnmapMemory.
C19_ReadsWhileMapped ==
  /\ Cardinality(CallsOf("vkMapMemory")) <= 1
  /\ pc = "read" => mapped_memory = "mapped"
  /\ \A e \in CallsOf("lodepng::encode") \cup CallsOf("vkFreeMemory") :
       /\ Cardinality(CallsOf("vkUnmapMemory")) = 1
       /\ \A u \in CallsOf("vkUnmapMemory") : u < e


\* The smallest multiple of 4 that is >= n, as a 32-bit pattern (2^31 is
\* the pattern of INT32_MIN)
LeastMultipleOf4(n) == IF n > INT32_MAX - 3 THEN INT32_MIN ELSE n + ((4 - (n % 4)) % 4)

\* k zero bytes
Zeros(k) == [j \in 1..k |-> 0]

\* ReadFile has returned for a file that was opened: the length it reported,
\* which line 518 passes as codeSize, is the smallest multiple of 4 >= the
\* file size, and the buffer holds the file bytes followed by zero bytes up
\* to that length.
ReturnedPadded ==
  /\ file_length = LeastMultipleOf4(filesize)
  /\ code = contents \o Zeros(Len(code) - Len(contents))
  /\ Len(code) - Len(contents) = (4 - (filesize % 4)) % 4

\* ReadFile was killed after a successful fopen
KilledInReadFile == pc = "crashed" /\ fp = "open"

\* ReadFile has returned after a successful fopen
ReturnedFromReadFile == pc = "vkCreateShaderModule" /\ fp = "closed"

RunResources ==
  (OwnedResources \ (IF kEnableValidationLayers THEN {} ELSE {"debug_report_callback"}))
  \cup {"fence"}

\* The call that creates obj
CreateCall(obj) == IF obj = "fence" THEN "vkCreateFence" ELSE CreateCallOf[obj]

\* The positions of the calls that destroy obj
DestroysOf(obj) ==
  {i \in 1..Len(log) : log[i].obj = obj /\ log[i].op \in TeardownCalls \cup {"vkDestroyFence"}}

\* The run is over (Run has returned) and no step of it failed: no driver
\* call returned an error and nothing was reported on the output
RunSucceeded == pc \in {"Run_returned", "exited"} /\ failures = 0 /\ stdout = {}

\* C21: at the end of a run in which every step succeeds, every resource of
\* the run was created and has been destroyed by exactly one call, none is
\* left, the last call destroyed the instance and the call before it the
\* logical device.
C21_EveryResourceDestroyedOnce ==
  RunSucceeded =>
    /\ \A obj \in RunResources :
         /\ \E c \in 1..Len(log) :
              /\ log[c].op = CreateCall(obj) /\ log[c].obj = obj
              /\ log[c].res = "VK_SUCCESS"
              /\ \A d \in DestroysOf(obj) : c < d
         /\ Cardinality(DestroysOf(obj)) = 1
    /\ alive = {}
    /\ log[Len(log)].op = "vkDestroyInstance"
    /\ log[Len(log) - 1].op = "vkDestroyDevice"

\* C21 happens: a run of the build with validation layers has ended with
\* EXIT_SUCCESS after nothing failed
C21_Witness ==
  /\ RunSucceeded
  /\ pc = "exited"
  /\ exit = "EXIT_SUCCESS"
  /\ kEnableValidationLayers
  /\ DestroysOf("debug_report_callback") # {}
  /\ DestroysOf("fence") # {}


\* The resource handles each call is given, from its argument list in the
\* source (the physical device and the queue are taken as handles of the
\* instance and of the device; the read loop goes through the mapping of the
\* buffer memory)
HandlesOf(op) ==
  CASE op = "vkCreateInstance" -> {}
    [] op = "lodepng::encode" -> {}
    [] op \in {"vkCreateDebugReportCallbackEXT", "vkCreateDevice", "vkDestroyInstance"}
         -> {"instance"}
    [] op = "vkDestroyDebugReportCallbackEXT" -> {"instance", "debug_report_callback"}
    [] op \in {"vkGetDeviceQueue", "vkCreateBuffer", "vkAllocateMemory",
               "vkCreateDescriptorSetLayout", "vkCreateDescriptorPool",
               "vkCreateShaderModule", "vkCreateCommandPool", "vkCreateFence",
               "vkDestroyDevice"} -> {"device"}
    [] op \in {"vkGetBufferMemoryRequirements", "vkDestroyBuffer"} -> {"device", "buffer"}
    [] op = "vkBindBufferMemory" -> {"device", "buffer", "buffer_memory"}
    [] op = "vkAllocateDescriptorSets"
         -> {"device", "descriptor_pool", "descriptor_set_layout"}
    [] op = "vkUpdateDescriptorSets" -> {"device", "descriptor_set", "buffer"}
    [] op \in {"vkCreatePipelineLayout", "vkDestroyDescriptorSetLayout"}
         -> {"device", "descriptor_set_layout"}
    [] op = "vkCreateComputePipelines"
         -> {"device", "compute_shader_module", "pipeline_layout"}
    [] op = "vkAllocateCommandBuffers" -> {"device", "command_pool"}
    [] op \in {"vkBeginCommandBuffer", "vkCmdDispatch", "vkEndCommandBuffer"}
         -> {"command_buffer"}
    [] op = "vkCmdBindPipeline" -> {"command_buffer", "pipeline"}
    [] op = "vkCmdBindDescriptorSets"
         -> {"command_buffer", "pipeline_layout", "descriptor_set"}
    [] op = "vkQueueSubmit" -> {"device", "command_buffer", "fence"}
    [] op \in {"vkWaitForFences", "vkDestroyFence"} -> {"device", "fence"}
    [] op \in {"vkMapMemory", "read", "vkUnmapMemory", "vkFreeMemory"}
         -> {"device", "buffer_memory"}
    [] op = "vkDestroyShaderModule" -> {"device", "compute_shader_module"}
    [] op = "vkDestroyDescriptorPool" -> {"device", "descriptor_pool"}
    [] op = "vkDestroyPipelineLayout" -> {"device", "pipeline_layout"}
    [] op = "vkDestroyPipeline" -> {"device", "pipeline"}
    [] op = "vkDestroyCommandPool" -> {"device", "command_pool"}

\* Every call of op is preceded by a successful call of earlier
After(op, earlier) ==
  \A j \in CallsOf(op) : \E i \in CallsOf(earlier) : i < j /\ log[i].res = "VK_SUCCESS"

\* C22: in a run where every driver call succeeds, each call is given only
\* handles of resources that exist when it is made (created, not yet
\* destroyed); the descriptor write comes after buffer creation and memory
\* binding, pipeline creation after the descriptor set layout, the shader
\* module and the pipeline layout were created, and recording after the
\* pipeline and the descriptor set were created.
C22_HandlesExistWhenUsed ==
  /\ [][(log' # log /\ failures' = 0) => HandlesOf(log'[Len(log')].op) \subseteq alive]_vars
  /\ [](failures = 0 =>
          /\ After("vkUpdateDescriptorSets", "vkCreateBuffer")
          /\ After("vkUpdateDescriptorSets", "vkBindBufferMemory")
          /\ After("vkCreateComputePipelines", "vkCreateDescriptorSetLayout")
          /\ After("vkCreateComputePipelines", "vkCreateShaderModule")
          /\ After("vkCreateComputePipelines", "vkCreatePipelineLayout")
          /\ After("vkBeginCommandBuffer", "vkCreateComputePipelines")
          /\ After("vkBeginCommandBuffer", "vkAllocateDescriptorSets"))

\* C22 happens: a run without a failed call has made its last call, the
\* destruction of the instance, after using the recorded command buffer
C22_Witness ==
  /\ failures = 0
  /\ Called("vkDestroyInstance")
  /\ Succeeded("vkQueueSubmit")
  /\ Succeeded("vkCmdBindDescriptorSets")
  /\ Called("read")


\* A runtime error is in flight or has ended the run
EndsByRuntimeError == pc = "thrown" \/ exit = "EXIT_FAILURE"

\* The calls that create an object
CreateCalls ==
  {CreateCallOf[obj] : obj \in OwnedResources}
  \cup {"vkAllocateDescriptorSets", "vkAllocateCommandBuffers", "vkCreateFence"}

\* The objects created so far, each by a successful call
CreatedObjects ==
  {log[i].obj : i \in {j \in 1..Len(log) : log[j].op \in CreateCalls
                                            /\ log[j].res = "VK_SUCCESS"}}

\* C23 as stated: when a run ends through a runtime error, every resource
\* created before the error still exists and no destroy call was made.
C23_NothingDestroyedOnError ==
  EndsByRuntimeError =>
    /\ CreatedObjects \subseteq alive
    /\ \A i \in 1..Len(log) : log[i].op \notin TeardownCalls \cup {"vkDestroyFence"}

\* C23 amended: when a run ends through a runtime error, no call of CleanUp's
\* destroy sequence was made and nothing is called or destroyed after the
\* error is raised; every resource created before the error still exists,
\* except the fence, which RunCommandBuffer has destroyed when the error is
\* raised in CleanUp.
C23_NoTeardownOnError ==
  /\ [](EndsByRuntimeError =>
          /\ CreatedObjects \ {"fence"} \subseteq alive
          /\ \A i \in 1..Len(log) : log[i].op \notin TeardownCalls
          /\ ("fence" \in CreatedObjects \ alive) => log[Len(log)].op = "lodepng::encode")
  /\ [][EndsByRuntimeError => log' = log /\ alive' = alive]_vars

\* C23 happens: CleanUp could not load the destroy entry point of the debug
\* callback, and the process has exited with the resources still alive
C23_Witness ==
  /\ pc = "exited"
  /\ exit = "EXIT_FAILURE"
  /\ e_what = "Could not load vkDestroyDebugReportCallbackEXT"
  /\ {"instance", "device", "buffer_memory", "command_pool"} \subseteq alive
  /\ "fence" \notin alive

=============================================================================
